---------------------------- MODULE Spec2Model ----------------------------
(***************************************************************************)
(* Model of the PSA squash predictor backend (src/backend/predict).        *)
(*                                                                         *)
(* Numbers.  Probabilities, win rates, weights and log-odds are floats in  *)
(* the source.  Here they are fixed-point integers in units of 1/U         *)
(* (U = 10^6): 0.52 is 520000, a logit of -2.197 is -2197225.  Ranks, Elo  *)
(* points and match counts are plain integers.  Reported probabilities are *)
(* rounded to three decimals and held in thousandths (0.85 is 850).        *)
(* exp, log and sqrt are computed by series and bisection: a final         *)
(* probability is within 5e-6 (TieBand) of the float of the code.          *)
(* round(), the .1% format and the comparison of the form difference with  *)
(* 0.15 are modelled on binary doubles, a win rate being a whole number of *)
(* millionths.  Where the final probability lies within TieBand of a       *)
(* rounding tie, k + 1/2 thousandths, the fixed-point value does not tell  *)
(* which double the code holds: predict_match is then the set of the       *)
(* returns that lines 263 and 276 make for the doubles around the tie      *)
(* (proba), each of them computed bit for bit (proba_at_tie).  The         *)
(* last-bit error of the other floating-point operations is not modelled.  *)
(*                                                                         *)
(* Feature extraction (features.py).  The age of a match is held in        *)
(* half-days, so that a date on the cutoff day and the whole days of       *)
(* timedelta.days can differ; Days(d) is d days.  The Elo of the           *)
(* extractor is held in thousandths of a point (1500 is 1500000); the      *)
(* elo_diff of a feature bundle given to predict_match is in whole points. *)
(*                                                                         *)
(* Random numbers (model.py, bootstrap_ci).  The state of np.random is the *)
(* seed last set and the draws made since; an array of samples is the term *)
(* naming the state it was drawn in and the parameters of the draw.  The   *)
(* values of the samples are not computed: two intervals are equal here    *)
(* exactly when they come from the same seed, the same earlier draws and   *)
(* the same parameters.                                                    *)
(*                                                                         *)
(* Requests (rankings.py, fetch.py, app.py, auth/middleware.py).  An       *)
(* answer of the ranking service is either a failure or the list of the    *)
(* ranked players; a call that raises returns the record Raised(error).    *)
(* get_ranking_snapshot_psa takes one step for each list it awaits and can *)
(* be cancelled while it is suspended.                                     *)
(* The login middleware reads time.time() in whole seconds; a login        *)
(* request is dispatched in two steps, before and after "await call_next", *)
(* so that requests of several clients interleave.                         *)
(***************************************************************************)
EXTENDS Integers, Sequences, FiniteSets, TLC

VARIABLES
    pc,          \* position of the modelled call: "idle" before, "done" after
    rank_a,      \* predict_match / ranking_prior argument
    rank_b,      \* predict_match / ranking_prior argument
    features,    \* predict_match argument: the feature bundle (a dict)
    result,      \* what the modelled call returned
    rank,        \* get_tier argument
    sources,     \* get_extended_match_history: what each source awaited did
    all_matches, \* get_extended_match_history: the fragments it collected
    hist_a,      \* match history of competitor A
    hist_b,      \* match history of competitor B
    h2h_df,      \* head-to-head frame of /api/predict: None or a DataFrame
    np_random,   \* state of numpy's process-wide random generator
    calls,       \* the predict_match calls of the process
    rankings,    \* what the PSA API answers to rankedplayers/{gender}
    player_name, \* get_ranking_snapshot_psa argument
    login_attempts, \* middleware._login_attempts: IP -> times of attempts
    lockouts,    \* middleware._lockouts: IP -> lockout_until
    now,         \* time.time(), in whole seconds
    logins       \* the POST /auth/login requests the middleware dispatched

vars == <<pc, rank_a, rank_b, features, result, rank, sources, all_matches,
          hist_a, hist_b, h2h_df, np_random, calls, rankings, player_name,
          login_attempts, lockouts, now, logins>>

\* an Optional[pd.DataFrame]
None == [frame |-> FALSE]

DataFrame(rows) == [frame |-> TRUE, rows |-> rows]

\* the variables of the calls that are not being made
NoRanks == rank_a = 0 /\ rank_b = 0

NoMerge == sources = <<>> /\ all_matches = <<>>

NoFrames ==
    /\ hist_a = <<>> /\ hist_b = <<>> /\ h2h_df = None

\* the generator as the import of numpy leaves it
np_random_at_import == [seed |-> 0 - 1, draws |-> <<>>]

NoCalls == np_random = np_random_at_import /\ calls = <<>>

frameVars == <<hist_a, hist_b, h2h_df>>

callVars == <<np_random, calls>>

\* the client addresses of the login requests
IPs == {"10.0.0.1", "10.0.0.2"}

\* no ranking was asked for; the middleware module was just imported
\* (lines 18-19) and time has not advanced
NoRequests ==
    /\ rankings = [male |-> [ok |-> FALSE], female |-> [ok |-> FALSE]]
    /\ player_name = ""
    /\ login_attempts = [ip \in IPs |-> <<>>]
    /\ lockouts = [ip \in {} |-> 0]
    /\ now = 0
    /\ logins = <<>>

requestVars == <<rankings, player_name, login_attempts, lockouts, now, logins>>

NoResult == [kind |-> "none"]

NoFeatures == [none \in {} |-> 0]

-----------------------------------------------------------------------------
(* Fixed-point arithmetic *)

U == 1000000

LN2 == 693147

Abs(x) == IF x < 0 THEN 0 - x ELSE x

Sgn(x) == IF x < 0 THEN 0 - 1 ELSE 1

Min(x, y) == IF y < x THEN y ELSE x

Max(x, y) == IF y > x THEN y ELSE x

\* a * b of two fixed-point numbers, computed in 1000-limbs to stay in 32 bits
MulU(a, b) ==
    LET x == Abs(a)
        y == Abs(b)
        xh == x \div 1000
        xl == x % 1000
        yh == y \div 1000
        yl == y % 1000
    IN  Sgn(a) * Sgn(b) *
        (xh * yh + ((xh * yl + xl * yh) \div 1000) + ((xl * yl) \div U))

\* a / b as a fixed-point number (a >= 0, b > 0), by long division
DivU(a, b) ==
    LET q0 == a \div b
        r0 == a % b
        q1 == (r0 * 100) \div b
        r1 == (r0 * 100) % b
        q2 == (r1 * 100) \div b
        r2 == (r1 * 100) % b
        q3 == (r2 * 100) \div b
    IN  q0 * U + q1 * 10000 + q2 * 100 + q3

\* x / d rounded to the nearest integer
RoundDiv(x, d) == Sgn(x) * ((2 * Abs(x) + d) \div (2 * d))

\* np.clip
Clip(x, lo, hi) == Max(lo, Min(x, hi))

\* sum of the series of exp(-r): t is the last term, s the partial sum
RECURSIVE ExpSeries(_, _, _, _)
ExpSeries(r, i, t, s) ==
    IF t = 0 \/ i > 20 THEN s
    ELSE LET t2 == IF t > 0 THEN 0 - (MulU(t, r) \div i)
                            ELSE MulU(0 - t, r) \div i
         IN  ExpSeries(r, i + 1, t2, s + t2)

\* exp(-y) for y >= 0
ExpNeg(y) ==
    LET n == y \div LN2
        r == y - n * LN2
    IN  IF n > 30 THEN 0 ELSE ExpSeries(r, 1, U, U) \div (2 ^ n)

\* scipy.special.expit: 1 / (1 + exp(-x))
Sigmoid(x) ==
    IF x >= 0 THEN DivU(U, U + ExpNeg(x))
    ELSE U - DivU(U, U + ExpNeg(0 - x))

RECURSIVE AtanhSeries(_, _, _, _)
AtanhSeries(z2, i, t, s) ==
    IF t = 0 \/ i > 41 THEN s
    ELSE LET t2 == MulU(t, z2)
         IN  AtanhSeries(z2, i + 2, t2, s + (t2 \div i))

\* the k with U <= x * 2^k < 2U, for 0 < x < 2U
RECURSIVE Log2Shift(_)
Log2Shift(x) == IF x >= U THEN 0 ELSE 1 + Log2Shift(2 * x)

\* natural logarithm of x, 0 < x < 2U
Ln(x) ==
    LET k == Log2Shift(x)
        m == x * (2 ^ k)
        z == DivU(m - U, m + U)
    IN  2 * AtanhSeries(MulU(z, z), 3, z, z) - k * LN2

\* scipy.special.logit: log(p / (1 - p)), 0 < p < U
Logit(p) == Ln(p) - Ln(U - p)

\* least r with r * r >= n, searched in lo..hi
RECURSIVE SqrtSearch(_, _, _)
SqrtSearch(n, lo, hi) ==
    IF lo >= hi THEN lo
    ELSE LET mid == (lo + hi) \div 2
         IN  IF MulU(mid, mid) >= n THEN SqrtSearch(n, lo, mid)
                                   ELSE SqrtSearch(n, mid + 1, hi)

\* np.sqrt of a fixed-point number
Sqrt(n) == SqrtSearch(n, 0, 20 * U)

\* x * 2^n modulo U, ten doublings at a time while n allows
RECURSIVE TimesPowerOfTwoModU(_, _)
TimesPowerOfTwoModU(x, n) ==
    IF n = 0 THEN x % U
    ELSE IF n >= 10 THEN TimesPowerOfTwoModU((1024 * (x % U)) % U, n - 10)
    ELSE TimesPowerOfTwoModU((2 * x) % U, n - 1)

\* the double nearest to x / U, less x / U itself, in millionths of a unit
\* in the last place of that double (0 <= x <= U): x / U is 2^(-t) times a
\* number of [1, 2), and the 53-bit significand is rounded to nearest
DoubleError(x) ==
    IF x = 0 THEN 0
    ELSE LET rem == TimesPowerOfTwoModU(x, 52 + Log2Shift(x))
         IN  IF rem < 500000 THEN 0 - rem ELSE U - rem

\* round(p, 3) of a probability, in thousandths.  A probability on a decimal
\* tie, k + 1/2 thousandths, is no binary double: the code holds the double
\* x nearest to it and numpy rounds rint(x * 1000) / 1000.  p / U is 2^(-t)
\* times a number of [1, 2); x lies below the tie when the remainder of its
\* 53-bit significand, rem millionths of a last place, is under a half.  The
\* product x * 1000 is rounded to a double again: it is k + 1/2 exactly, and
\* rint takes the even neighbour, unless the last place of the product is
\* only 512 times that of x (not wide) and x is 0.256 of a last place or
\* more away from the tie.
Round3(p) ==
    LET k == p \div 1000
        r == p % 1000
        t == Log2Shift(p)
        wide == p * (2 ^ t) >= 1024000
        rem == TimesPowerOfTwoModU(p, 52 + t)
        d == Min(rem, U - rem)
    IN  IF r < 500 THEN k
        ELSE IF r > 500 THEN k + 1
        ELSE IF wide \/ d < 256000
             THEN IF k % 2 = 0 THEN k ELSE k + 1
             ELSE IF rem < 500000 THEN k ELSE k + 1

\* lines 263 and 276 for the double p_final_a that lies j last places from
\* the tie k + 1/2 thousandths (1 <= k <= 999): the greatest double not above
\* the tie for j = 0, the doubles below it for j < 0, those above for j > 0.
\* e_a is p_final_a less the tie, in millionths of a last place of
\* p_final_a.  p_final_a * 1000 is rounded to a double that is a whole
\* number of its own last places (1024 or 512 of those of p_final_a) from
\* k + 1/2, and rint takes the side it lies on, the even neighbour when it
\* is k + 1/2.  p_final_b = 1 - p_final_a is exact when its last place is
\* not coarser than that of p_final_a, and else rounded to a double n_q
\* last places above the greatest double not above the complementary tie;
\* p_final_b * 1000 is rounded and rinted in the same way.
proba_at_tie(k, j) ==
    LET RoundHalfEven(x, d, odd) ==
            LET r == x % d
                q == (x - r) \div d
            IN  IF r > d - r THEN q + 1
                ELSE IF r < d - r THEN q
                ELSE IF (q % 2 = 1) # odd THEN q + 1 ELSE q
        Rint(n, m) ==
            IF n > 0 THEN m + 1
            ELSE IF n < 0 THEN m
            ELSE IF m % 2 = 0 THEN m ELSE m + 1
        LastPlaces(x, t) == IF x * (2 ^ t) >= 1024000 THEN 1024 ELSE 512
        x_a == 1000 * k + 500
        x_b == U - x_a
        t_a == Log2Shift(x_a)
        t_b == Log2Shift(x_b)
        e_a == j * U - TimesPowerOfTwoModU(x_a, 52 + t_a)
        d_b == 1000 * LastPlaces(x_b, t_b)
        n_b == IF t_a <= t_b
               THEN RoundHalfEven(0 - e_a, d_b \div (2 ^ (t_b - t_a)), FALSE)
               ELSE LET h == 2 ^ (t_a - t_b)
                        f_b == TimesPowerOfTwoModU(x_b, 52 + t_b)
                        odd == TimesPowerOfTwoModU(x_b, 51 + t_b) >= 500000
                        n_q == RoundHalfEven(f_b * h - e_a, h * U, odd)
                    IN  RoundHalfEven(n_q * U - f_b, d_b, FALSE)
    IN  [A |-> Rint(RoundHalfEven(e_a, 1000 * LastPlaces(x_a, t_a), FALSE), k),
         B |-> Rint(n_b, 999 - k)]

\* dict.get(key, default)
Get(d, key, default) == IF key \in DOMAIN d THEN d[key] ELSE default

-----------------------------------------------------------------------------
(* Ranking tiers and the ranking prior *)

TIERS == << <<1, 5>>, <<6, 20>>, <<21, 50>>, <<51, 100>>, <<101, 200>>, <<201, 9999>> >>

get_tier_no_default(r) ==
    IF \E i \in 1..Len(TIERS) : TIERS[i][1] <= r /\ r <= TIERS[i][2]
    THEN (CHOOSE i \in 1..Len(TIERS) : TIERS[i][1] <= r /\ r <= TIERS[i][2]) - 1
    ELSE 0

get_tier_off_by_one(r) ==
    IF \E i \in 1..Len(TIERS) : TIERS[i][1] <= r /\ r < TIERS[i][2]
    THEN (CHOOSE i \in 1..Len(TIERS) : TIERS[i][1] <= r /\ r < TIERS[i][2]) - 1
    ELSE 5

\* tier index 0..5 of a rank: the first interval of TIERS holding it, else 5
get_tier(r) ==
    IF \E i \in 1..Len(TIERS) : TIERS[i][1] <= r /\ r <= TIERS[i][2]
    THEN (CHOOSE i \in 1..Len(TIERS) :
             /\ TIERS[i][1] <= r /\ r <= TIERS[i][2]
             /\ \A j \in 1..(i - 1) : ~(TIERS[j][1] <= r /\ r <= TIERS[j][2])) - 1
    ELSE 5

\* underdog_caps.get(tier_gap, 0.10)
underdog_caps(tier_gap) ==
    CASE tier_gap = 0 -> 450000
      [] tier_gap = 1 -> 400000
      [] tier_gap = 2 -> 350000
      [] tier_gap = 3 -> 250000
      [] tier_gap = 4 -> 150000
      [] OTHER -> 100000

ranking_prior_even_tie(ra, rb) ==
    LET tier_gap == IF ra < rb THEN get_tier(rb) - get_tier(ra)
                               ELSE get_tier(ra) - get_tier(rb)
        cap == underdog_caps(tier_gap)
    IN  IF ra < rb THEN <<U - cap, cap>>
        ELSE IF rb < ra THEN <<cap, U - cap>>
        ELSE <<500000, 500000>>

ranking_prior_favors_a(ra, rb) ==
    LET tier_gap == Abs(get_tier(rb) - get_tier(ra))
        cap == underdog_caps(tier_gap)
    IN  IF ra = rb THEN <<520000, 480000>> ELSE <<U - cap, cap>>

\* (p_a, p_b) from the two ranks
ranking_prior(ra, rb) ==
    LET tier_a == get_tier(ra)
        tier_b == get_tier(rb)
        a_is_favorite == ra < rb
        favorite_tier == IF a_is_favorite THEN tier_a ELSE tier_b
        underdog_tier == IF a_is_favorite THEN tier_b ELSE tier_a
        tier_gap == underdog_tier - favorite_tier
        underdog_cap == underdog_caps(tier_gap)
        p_fav == U - underdog_cap
        p_und == underdog_cap
    IN  IF ra = rb THEN <<520000, 480000>>
        ELSE IF a_is_favorite THEN <<p_fav, p_und>>
        ELSE <<p_und, p_fav>>

-----------------------------------------------------------------------------
(* Evidence model *)

\* 1 / (1 + 10 ** (-elo_diff / 400)); ln(10) / 400 = 0.00575646...
elo_probability(elo_diff) ==
    Sigmoid(elo_diff * 5756 + RoundDiv(elo_diff * 46273, 100000))

\* probability from the features alone, clipped to [0.01, 0.99]
evidence_probability(f) ==
    LET p_elo == elo_probability(f.elo_diff)
        form_a == f.form_a
        form_b == f.form_b
        form_a_win_rate == Get(form_a, "quality_adjusted_win_rate", form_a.win_rate)
        form_b_win_rate == Get(form_b, "quality_adjusted_win_rate", form_b.win_rate)
        form_factor == RoundDiv((form_a_win_rate - form_b_win_rate) * 15, 100)
        momentum_a == Get(form_a, "recent_momentum", 0)
        momentum_b == Get(form_b, "recent_momentum", 0)
        momentum_factor == RoundDiv(momentum_a - momentum_b, 10)
        trend_a == Get(Get(f, "trend_a", <<>>), "trend", 0)
        trend_b == Get(Get(f, "trend_b", <<>>), "trend", 0)
        trend_factor == RoundDiv(trend_a - trend_b, 10)
        p_evidence == p_elo + form_factor + momentum_factor + trend_factor
    IN  Clip(p_evidence, 10000, 990000)

calculate_evidence_weight_unclipped(f) ==
    Sqrt((f.form_a.matches_played + f.form_b.matches_played) * (U \div 2)) \div 10

\* weight of the evidence against the prior, in [0.2, 1.0]
calculate_evidence_weight(f) ==
    LET n_a == f.form_a.matches_played
        n_b == f.form_b.matches_played
        n_evidence == (n_a + n_b) * (U \div 2)
        w == Sqrt(n_evidence) \div 10
    IN  Clip(w, 200000, U)

h2h_adjustment_without_zero_test(f, ra, rb) ==
    MulU((f.h2h.a_win_rate - 500000) * 2,
         IF f.h2h.n_effective < 2 * U THEN 50000
         ELSE IF f.h2h.n_effective < 3 * U THEN 100000
         ELSE IF f.h2h.n_effective < 5 * U THEN 200000
         ELSE 300000)

\* head-to-head adjustment of the log-odds
h2h_adjustment_uncentred(f, ra, rb) ==
    LET n_eff == f.h2h.n_effective
        strength == IF n_eff < 2 * U THEN 50000
                    ELSE IF n_eff < 3 * U THEN 100000
                    ELSE IF n_eff < 5 * U THEN 200000
                    ELSE 300000
    IN  IF f.h2h.n_matches = 0 THEN 0
        ELSE MulU(f.h2h.a_win_rate * 2, strength)

h2h_adjustment(f, ra, rb) ==
    LET h2h == f.h2h
        n_matches == h2h.n_matches
        n_eff == h2h.n_effective
        a_win_rate == h2h.a_win_rate
        strength == IF n_eff < 2 * U THEN 50000
                    ELSE IF n_eff < 3 * U THEN 100000
                    ELSE IF n_eff < 5 * U THEN 200000
                    ELSE 300000
        direction == (a_win_rate - 500000) * 2
        delta_logit == MulU(direction, strength)
    IN  IF n_matches = 0 THEN 0 ELSE delta_logit

-----------------------------------------------------------------------------
(* Guardrails *)

\* Condition 1: the underdog leads in Elo by at least 180
elo_condition(f, ra, rb) ==
    IF ra > rb THEN f.elo_diff >= 180 ELSE f.elo_diff <= 0 - 180

\* Condition 3: at least 5 head-to-head matches, underdog win share >= 70%
h2h_condition(f, ra, rb) ==
    /\ f.h2h.n_matches >= 5
    /\ IF ra > rb /\ f.h2h.a_win_rate >= 700000 THEN TRUE
       ELSE rb > ra /\ f.h2h.a_win_rate <= 300000

\* number of override conditions met (condition 2 is never counted)
conditions_met(f, ra, rb) ==
    (IF elo_condition(f, ra, rb) THEN 1 ELSE 0)
    + (IF h2h_condition(f, ra, rb) THEN 1 ELSE 0)

check_override_conditions_any(f, ra, rb, tier_gap) ==
    conditions_met(f, ra, rb) >= 1

check_override_conditions(f, ra, rb, tier_gap) ==
    conditions_met(f, ra, rb) >= 2

guardrail_cap_flat(tier_gap) == 250000

\* caps.get(tier_gap, 0.10) with caps = {3: 0.25, 4: 0.15}
guardrail_cap(tier_gap) ==
    CASE tier_gap = 3 -> 250000
      [] tier_gap = 4 -> 150000
      [] OTHER -> 100000

\* is check_override_conditions called: large tier gap with a thin head-to-head
guardrail_reached_up_to_five(f, tier_gap) ==
    tier_gap >= 3 /\ f.h2h.n_matches <= 5

guardrail_reached(f, tier_gap) == tier_gap >= 3 /\ f.h2h.n_matches < 3

guardrail_applies_no_h2h_test(f, ra, rb, tier_gap) ==
    /\ tier_gap >= 3
    /\ ~check_override_conditions(f, ra, rb, tier_gap)

\* is the cap applied
guardrail_applies(f, ra, rb, tier_gap) ==
    /\ guardrail_reached(f, tier_gap)
    /\ ~check_override_conditions(f, ra, rb, tier_gap)

\* the monotonicity step: the better rank is the favourite
monotonicity_skipped(p, ra, rb) == p

monotonicity_without_elif(p, ra, rb) == IF ra < rb THEN Max(p, 520000) ELSE p

monotonicity(p, ra, rb) ==
    IF ra < rb THEN Max(p, 520000)
    ELSE IF rb < ra THEN Min(p, 480000)
    ELSE p

-----------------------------------------------------------------------------
(* predict_match *)

\* fixed-point error of a final probability, in millionths
TieBand == 5

\* "proba" of the returned dict (lines 263 and 276) when the fixed-point
\* arithmetic gives p for p_final_a: round(p_final_a, 3) and
\* round(1 - p_final_a, 3), in thousandths.  Further than TieBand from the
\* tie of its thousandth, every double the code can hold is rounded as p is.
\* Within TieBand of the tie the code holds a double on either side of the
\* tie, 2h + 2 last places from it or nearer, h being the number of last
\* places of p_final_a in one of p_final_b; the doubles further away are
\* rounded as those 2h + 2 last places away.
proba(p) ==
    LET k == p \div 1000
        tie == 1000 * k + 500
        h == 2 ^ Max(0, Log2Shift(tie) - Log2Shift(U - tie))
    IN  IF Abs(p - tie) > TieBand
        THEN {[A |-> Round3(p), B |-> Round3(U - p)]}
        ELSE { proba_at_tie(k, j) : j \in (0 - (2 * h + 2))..(2 * h + 2) }

\* predict_match, lines 216-279, without the intervals and the explanation:
\* every return the code can make when the fixed-point arithmetic gives
\* p_final_a, one for each report of proba
predict_match(f, ra, rb) ==
    LET p_prior_a == ranking_prior(ra, rb)[1]
        logit_prior == Logit(p_prior_a)
        p_elo == evidence_probability(f)
        logit_elo == Logit(p_elo)
        w == calculate_evidence_weight(f)
        logit_blend == MulU(w, logit_elo) + MulU(U - w, logit_prior)
        delta_h2h == h2h_adjustment(f, ra, rb)
        logit_final == logit_blend + delta_h2h
        tier_a == get_tier(ra)
        tier_b == get_tier(rb)
        tier_gap == Abs(tier_a - tier_b)
        p_blend == Sigmoid(logit_final)
        cap == guardrail_cap(tier_gap)
        p_guard == IF guardrail_applies(f, ra, rb, tier_gap)
                   THEN IF ra > rb THEN Min(p_blend, cap)
                                   ELSE Max(p_blend, U - cap)
                   ELSE p_blend
        p_final_a == monotonicity(p_guard, ra, rb)
        p_final_b == U - p_final_a
        winner == IF p_final_a > p_final_b THEN "A" ELSE "B"
    IN  { [kind |-> "prediction",
           winner |-> winner,
           proba |-> reported,
           \* not returned by the code: the values of its locals
           p_final_a |-> p_final_a,
           p_final_b |-> p_final_b,
           p_blend |-> p_blend,
           tier_gap |-> tier_gap,
           override_called |-> guardrail_reached(f, tier_gap),
           override |-> check_override_conditions(f, ra, rb, tier_gap),
           capped |-> guardrail_applies(f, ra, rb, tier_gap)] :
          reported \in proba(p_final_a) }

-----------------------------------------------------------------------------
(* Explanation (model.py, generate_explanation)                            *)
(*                                                                         *)
(* A note is an f-string: its literal text with {} for each formatted      *)
(* value, and the formatted values in order (a share formatted with .1% is *)
(* held in tenths of a percent).                                           *)

Note(template, args) == [template |-> template, args |-> args]

\* f"+ {impact}" if positive else f"- {impact}"
Signed(positive, impact) ==
    IF positive
    THEN (IF impact = "strong" THEN "+ strong"
          ELSE IF impact = "moderate" THEN "+ moderate"
          ELSE IF impact = "mild" THEN "+ mild" ELSE "+ neutral")
    ELSE (IF impact = "strong" THEN "- strong"
          ELSE IF impact = "moderate" THEN "- moderate"
          ELSE IF impact = "mild" THEN "- mild" ELSE "- neutral")

\* format(x, '.1%') of a share, in tenths of a percent: the double x is
\* multiplied by 100, the product is rounded to a double y, and y is
\* written with one decimal, correctly rounded, an exact tie to the even
\* digit.  A share on a decimal tie, k + 1/2 tenths, is decided by the side
\* of the tie y lies on.  In millionths of a last place of y: the tie is ry
\* above a double (whose significand is odd or not), the exact product
\* pos / 128 above that double (the last place of y is 64 times that of x,
\* or 128 times when wide), and y is q last places above it.
Percent1(x) ==
    LET k == x \div 1000
        r == x % 1000
        t == Log2Shift(x)
        wide == x * (2 ^ t) * 100 >= 128 * U
        n == 52 + t - (IF wide THEN 7 ELSE 6)
        ry == TimesPowerOfTwoModU(100 * x, n)
        odd == TimesPowerOfTwoModU(100 * x, n - 1) >= 500000
        pos == 128 * ry + 100 * DoubleError(x) * (IF wide THEN 1 ELSE 2)
        below == pos \div (128 * U)
        rem == pos % (128 * U)
        up == IF 2 * rem = 128 * U THEN odd # (below % 2 = 1)
              ELSE 2 * rem > 128 * U
        q == IF up THEN below + 1 ELSE below
    IN  IF r < 500 THEN k
        ELSE IF r > 500 THEN k + 1
        ELSE IF q * U > ry THEN k + 1
        ELSE IF q * U < ry THEN k
        ELSE IF k % 2 = 0 THEN k ELSE k + 1

ranking_gap_driver(ra, rb, tier_gap) ==
    LET impact == IF tier_gap >= 3 THEN "strong"
                  ELSE IF tier_gap >= 1 THEN "moderate" ELSE "mild"
        note == IF tier_gap >= 3
                THEN (IF ra < rb
                      THEN Note("Top-tier player (#{}) vs lower-ranked (#{}) strongly favors A",
                                <<ra, rb>>)
                      ELSE Note("Top-tier player (#{}) vs lower-ranked (#{}) strongly favors B",
                                <<rb, ra>>))
                ELSE IF tier_gap >= 1
                THEN Note("Ranking gap (#{} vs #{}) provides edge", <<ra, rb>>)
                ELSE Note("Similar rankings (#{} vs #{})", <<ra, rb>>)
    IN  [feature |-> "Ranking gap", impact |-> Signed(ra < rb, impact),
         note |-> note]

\* Line 356, abs(form_diff) > 0.15, compares doubles: the difference of the
\* doubles of the two win rates, rounded to a double, with the double of
\* 0.15.  Win rates 0.15 apart in decimal are decided by the errors of the
\* three doubles, here in millionths of 2^(-55), the last place of 0.15.
\* The exact difference exceeds 0.15 by the error of the higher rate (above
\* holds it less the error of 0.15 and half a last place) less the error of
\* the lower rate (in beside, rounded up); it is rounded to nearest, a tie
\* away from the double of 0.15, whose significand is odd.
recent_form_driver(f) ==
    LET form_a == f.form_a.win_rate
        form_b == f.form_b.win_rate
        form_diff == form_a - form_b
        hi == Max(form_a, form_b)
        lo == Min(form_a, form_b)
        s == Log2Shift(lo)
        above == DoubleError(hi) * (2 ^ (3 - Log2Shift(hi)))
                 - DoubleError(150000) - 500000
        beside == IF lo = 0 THEN 0
                  ELSE IF s <= 3 THEN DoubleError(lo) * (2 ^ (3 - s))
                  ELSE 0 - ((0 - DoubleError(lo)) \div (2 ^ (s - 3)))
        exceeds == IF Abs(form_diff) # 150000 THEN Abs(form_diff) > 150000
                   ELSE above >= beside
        impact == IF exceeds THEN "moderate" ELSE "neutral"
        note == IF exceeds
                THEN (IF form_diff > 0
                      THEN Note("Player A has stronger recent form ({} vs {})",
                                <<Percent1(form_a), Percent1(form_b)>>)
                      ELSE Note("Player B has stronger recent form ({} vs {})",
                                <<Percent1(form_b), Percent1(form_a)>>))
                ELSE Note("Both players showing similar recent form", <<>>)
    IN  [feature |-> "Recent form", impact |-> Signed(form_diff > 0, impact),
         note |-> note]

head_to_head_driver(f) ==
    LET h2h == f.h2h
    IN  IF h2h.n_matches >= 3
        THEN IF h2h.a_win_rate > 600000
             THEN [feature |-> "Head-to-head", impact |-> "moderate",
                   note |-> Note("Player A leads H2H ({} recent matches)",
                                 <<h2h.n_matches>>)]
             ELSE IF h2h.a_win_rate < 400000
             THEN [feature |-> "Head-to-head", impact |-> "moderate",
                   note |-> Note("Player B leads H2H ({} recent matches)",
                                 <<h2h.n_matches>>)]
             ELSE [feature |-> "Head-to-head", impact |-> "neutral",
                   note |-> Note("Even H2H record ({} recent matches)",
                                 <<h2h.n_matches>>)]
        ELSE [feature |-> "Head-to-head", impact |-> "neutral",
              note |-> Note("No significant H2H history in last 24 months",
                            <<>>)]

rating_driver_from_150(elo_diff) == Abs(elo_diff) >= 150

\* line 393: the rating differential is reported
rating_driver_present(elo_diff) == Abs(elo_diff) > 150

performance_rating_driver(f) ==
    [feature |-> "Performance rating",
     impact |-> Signed(f.elo_diff > 0, "moderate"),
     note |-> Note("Performance rating differential favors {}",
                   <<IF f.elo_diff > 0 THEN "A" ELSE "B">>)]

generate_explanation(f, ra, rb, p_final_a, tier_gap) ==
    [drivers |->
        <<ranking_gap_driver(ra, rb, tier_gap), recent_form_driver(f),
          head_to_head_driver(f)>>
        \o (IF rating_driver_present(f.elo_diff)
            THEN <<performance_rating_driver(f)>> ELSE <<>>)]

-----------------------------------------------------------------------------
(* The process-wide generator np.random, and predict_match with its seed   *)
(*                                                                         *)
(* The state of the generator is determined by the seed it was last seeded *)
(* with (-1: the entropy it starts with) and the draws made since.  The    *)
(* values drawn are not computed: a sample array is identified by the      *)
(* state it was drawn in and the parameters of the draw, and an interval   *)
(* by the sample array it is the percentiles of.                           *)

np_random_seed_skipped(state, seed) == state

\* np.random.seed(seed)
np_random_seed(state, seed) == [seed |-> seed, draws |-> <<>>]

\* np.random.beta(a, b, size=size): the samples and the state it leaves
np_random_beta(state, a, b, size) ==
    [samples |-> [seed |-> state.seed, after |-> state.draws,
                  a |-> a, b |-> b, size |-> size],
     state |-> [seed |-> state.seed,
                draws |-> Append(state.draws, <<a, b, size>>)]]

\* lines 303-312: the rounded 2.5 and 97.5 percentiles of samples_a and of
\* samples_b = 1 - samples_a
percentile_intervals(samples_a) ==
    [A |-> [percentiles |-> <<25, 975>>, of |-> samples_a, one_minus |-> FALSE],
     B |-> [percentiles |-> <<25, 975>>, of |-> samples_a, one_minus |-> TRUE]]

\* the draw of bootstrap_ci, lines 297-301
bootstrap_draw(state, p_a, n_bootstrap) ==
    np_random_beta(state, Max(U, 50 * p_a), Max(U, 50 * (U - p_a)), n_bootstrap)

\* bootstrap_ci run without interruption: the intervals and the state left
bootstrap_ci(state, p_a, p_b, n_bootstrap, seed) ==
    LET drawn == bootstrap_draw(np_random_seed(state, seed), p_a, n_bootstrap)
    IN  [ci95 |-> percentile_intervals(drawn.samples), state |-> drawn.state]

\* lines 269-279: the dict predict_match returns
returned_dict(args, prediction, ci95) ==
    [winner |-> prediction.winner, proba |-> prediction.proba, ci95 |-> ci95,
     explain |-> generate_explanation(args.features, args.rank_a, args.rank_b,
                                      prediction.p_final_a, prediction.tier_gap)]

\* predict_match(features, rank_a, rank_b, seed) run without interruption
\* from a state of the generator: every pair of what it returns and the
\* state it leaves
predict_match_seeded(state, args) ==
    { LET seeded == np_random_seed(state, args.seed)
          ci == bootstrap_ci(seeded, prediction.p_final_a,
                             prediction.p_final_b, 500, args.seed)
      IN  [result |-> returned_dict(args, prediction, ci.ci95),
           state |-> ci.state] :
        prediction \in predict_match(args.features, args.rank_a, args.rank_b) }

-----------------------------------------------------------------------------
(* Inputs of the prediction *)

\* ranks of tiers 0, 0, 3, 4 and 5: every tier gap from 0 to 5 occurs
PredictRanks == {2, 4, 60, 180, 250}

\* form dicts; the last one lacks the optional keys, as in tests/test_model.py
Forms ==
    { [win_rate |-> 500000, quality_adjusted_win_rate |-> 500000,
       recent_momentum |-> 0, matches_played |-> 0],
      [win_rate |-> 900000, quality_adjusted_win_rate |-> 950000,
       recent_momentum |-> 500000, matches_played |-> 20],
      [win_rate |-> 200000, quality_adjusted_win_rate |-> 100000,
       recent_momentum |-> 0 - 500000, matches_played |-> 5],
      [win_rate |-> 750000, matches_played |-> 15] }

H2Hs ==
    { [n_matches |-> 0, n_effective |-> 0, a_win_rate |-> 500000],
      [n_matches |-> 2, n_effective |-> 1500000, a_win_rate |-> 1000000],
      [n_matches |-> 2, n_effective |-> 2000000, a_win_rate |-> 0],
      [n_matches |-> 5, n_effective |-> 4500000, a_win_rate |-> 800000],
      [n_matches |-> 5, n_effective |-> 5000000, a_win_rate |-> 200000],
      [n_matches |-> 6, n_effective |-> 3000000, a_win_rate |-> 500000] }

\* the feature dicts; Trends are the optional trend_a / trend_b entries
FeatureBundles ==
    LET Trends ==
            { [none \in {} |-> 0],
              [trend_a |-> [trend |-> 200000, consistency |-> 800000],
               trend_b |-> [trend |-> 0 - 100000, consistency |-> 900000]],
              [trend_a |-> [trend |-> 0 - 100000, consistency |-> 900000],
               trend_b |-> [trend |-> 200000, consistency |-> 800000]] }
    IN  { [elo_diff |-> e, form_a |-> fa, form_b |-> fb, h2h |-> h] @@ t :
            e \in {0 - 500, 0 - 180, 0, 180, 500}, fa \in Forms, fb \in Forms,
            h \in H2Hs, t \in Trends }

-----------------------------------------------------------------------------
(* The prediction as a state machine: one call of predict_match *)

Init ==
    /\ NoRequests
    /\ pc = "idle"
    /\ NoCalls
    /\ NoFrames
    /\ rank_a \in PredictRanks
    /\ rank_b \in PredictRanks
    /\ features \in FeatureBundles
    /\ result = NoResult
    /\ rank = 0
    /\ NoMerge

\* predict_match with the default seed of 42; the generator is left as
\* bootstrap_ci leaves it
PredictMatch ==
    /\ pc = "idle"
    /\ result' \in predict_match(features, rank_a, rank_b)
    /\ np_random' = bootstrap_ci(np_random_seed(np_random, 42), result'.p_final_a,
                                 result'.p_final_b, 500, 42).state
    /\ pc' = "done"
    /\ UNCHANGED <<requestVars,
                   rank_a, rank_b, features, rank, sources, all_matches,
                   frameVars, calls>>

Next == PredictMatch

Spec == Init /\ [][Next]_vars

-----------------------------------------------------------------------------
(* ranking_prior and get_tier as state machines of their own *)

\* ranks on both sides of every tier breakpoint, and above the last interval
PriorRanks == {1, 5, 6, 20, 21, 50, 51, 100, 101, 200, 201, 999, 9999, 10000}

InitPrior ==
    /\ NoRequests
    /\ pc = "idle"
    /\ NoCalls
    /\ NoFrames
    /\ rank_a \in PriorRanks
    /\ rank_b \in PriorRanks
    /\ features = NoFeatures
    /\ result = NoResult
    /\ rank = 0
    /\ NoMerge

RankingPrior ==
    /\ pc = "idle"
    /\ result' = [kind |-> "prior",
                  p_a |-> ranking_prior(rank_a, rank_b)[1],
                  p_b |-> ranking_prior(rank_a, rank_b)[2]]
    /\ pc' = "done"
    /\ UNCHANGED <<requestVars,
                   rank_a, rank_b, features, rank, sources, all_matches, frameVars,
                   callVars>>

SpecPrior == InitPrior /\ [][RankingPrior]_vars

\* largest rank get_tier is called with
MaxRank == 10050

InitTier ==
    /\ NoRequests
    /\ pc = "idle"
    /\ NoCalls
    /\ NoFrames
    /\ rank \in 1..MaxRank
    /\ NoRanks
    /\ features = NoFeatures
    /\ result = NoResult
    /\ NoMerge

GetTier ==
    /\ pc = "idle"
    /\ result' = [kind |-> "tier", tier |-> get_tier(rank)]
    /\ pc' = "done"
    /\ UNCHANGED <<requestVars,
                   rank_a, rank_b, features, rank, sources, all_matches, frameVars,
                   callVars>>

SpecTier == InitTier /\ [][GetTier]_vars

-----------------------------------------------------------------------------
(* History aggregation: get_extended_match_history (predict/fetch.py)      *)
(*                                                                         *)
(* A row is a match record [date, tz_aware, opponent, result]; a fragment  *)
(* is what one source returns, a sequence of rows.  The 'date' of a row is *)
(* a datetime: date is its instant and tz_aware tells whether it carries a *)
(* tzinfo.  The PSA API rows are tz-aware (fetch.py, line 246:             *)
(* fromisoformat of a string with Z or an offset; a naive date fails the   *)
(* comparison with the aware cutoff of line 247 and its match is skipped); *)
(* the rows of the PSA website,                                            *)
(* of the direct-ID scrape and of SquashInfo come from strptime and are    *)
(* naive; a SquashLevels row is aware when its string has a 'T' and an     *)
(* offset and naive otherwise (squashlevels.py, lines 140-146).  Four of   *)
(* the sources sort their DataFrame by date, newest first; SquashLevels    *)
(* returns its rows in the order of the API response (squashlevels.py,     *)
(* line 199).  Awaiting a source either raises or returns a fragment;      *)
(* sources holds what the sources awaited so far did.  The call is         *)
(* suspended at each "await source_coro" (line 164): pc is the source it   *)
(* awaits, and the timeout of the caller (app.py, line 133) can cancel it  *)
(* there.                                                                  *)

\* source_name.lower().replace(' ', '_') of the five sources, in list order
SourceNames == <<"psa_website", "psa_direct_id", "psa_api", "squashlevels",
                 "squashinfo">>

Dates == {1, 2}

Opponents == {"x", "y"}

\* rows returned by all the sources of one call, a raise counting as one
MaxRows == 3

SortedDescending(rows) ==
    \A i \in 1..(Len(rows) - 1) : rows[i].date >= rows[i + 1].date

\* what one awaited source can do with a budget of n rows: raise, or return
\* a fragment of at most n rows whose dates are of the kinds the source
\* produces, sorted if the source sorts its rows
SourceOutcomesOne(n, sorts, kinds) ==
    { [raises |-> FALSE, rows |-> rows] :
        rows \in { r \in UNION { [1..len -> [date : Dates,
                                             tz_aware : kinds,
                                             opponent : Opponents,
                                             result : {"W", "L"}]] :
                                   len \in 0..n } :
                      sorts => SortedDescending(r) } }
    \cup (IF n >= 1 THEN {[raises |-> TRUE, rows |-> <<>>]} ELSE {})

\* the outcomes of source i: PSA API (3) returns tz-aware dates, SquashLevels
\* (4) dates of either kind in any order, the other sources naive dates
SourceOutcomesByBudget ==
    [i \in 1..Len(SourceNames) |->
        [n \in 0..MaxRows |->
            SourceOutcomesOne(n, i # 4,
                              IF i = 3 THEN {TRUE}
                              ELSE IF i = 4 THEN BOOLEAN ELSE {FALSE})]]

\* pc while the call is suspended at the await of source i
Awaiting == <<"await_1", "await_2", "await_3", "await_4", "await_5">>

\* matches['source'] = ...: the fragment of source i with its source column
Tagged(i, rows) ==
    [j \in 1..Len(rows) |->
        [date |-> rows[j].date, tz_aware |-> rows[j].tz_aware,
         opponent |-> rows[j].opponent, result |-> rows[j].result,
         source |-> SourceNames[i]]]

\* lines 163-173: what the loop appends to all_matches when the await of
\* source i is over
Awaited(srcs, i) ==
    IF srcs[i].raises \/ srcs[i].rows = <<>> THEN <<>>
    ELSE <<Tagged(i, srcs[i].rows)>>

\* the loop over the sources from source i on: the non-empty fragments of
\* the sources that did not raise, in list order
RECURSIVE Collect(_, _)
Collect(srcs, i) ==
    IF i > Len(srcs) THEN <<>>
    ELSE Awaited(srcs, i) \o Collect(srcs, i + 1)

\* pd.concat(all_matches, ignore_index=True)
RECURSIVE Concat(_)
Concat(frags) ==
    IF frags = <<>> THEN <<>> ELSE Head(frags) \o Concat(Tail(frags))

\* equality of the subset ['date', 'opponent'] as drop_duplicates sees it: a
\* tz-aware and a tz-naive datetime are never equal
SameKey(r1, r2) ==
    /\ r1.date = r2.date
    /\ r1.tz_aware = r2.tz_aware
    /\ r1.opponent = r2.opponent

drop_duplicates_none(rows) ==
    [i \in 1..Len(rows) |-> [row |-> rows[i], at |-> i]]

\* drop_duplicates(subset=['date', 'opponent'], keep='first'): each row with
\* its position, without the rows whose key occurred before
drop_duplicates(rows) ==
    SelectSeq([i \in 1..Len(rows) |-> [row |-> rows[i], at |-> i]],
              LAMBDA e : \A j \in 1..(e.at - 1) : ~SameKey(rows[j], e.row))

\* sort_values('date', ascending=False) of a column of one kind of
\* datetime, with the default kind='quicksort': the entries in descending
\* order of date.  The sort is not stable: the order in which it leaves
\* entries of the same date is a function of the column that pandas and
\* numpy do not specify, and each such order is an outcome: any of the
\* newest entries comes first, followed by the others sorted.
RECURSIVE sort_values(_)
sort_values(entries) ==
    IF entries = <<>> THEN {<<>>}
    ELSE UNION { { <<entries[i]>> \o rest :
                     rest \in sort_values(SubSeq(entries, 1, i - 1)
                                          \o SubSeq(entries, i + 1, Len(entries))) } :
                 i \in { n \in 1..Len(entries) :
                           \A m \in 1..Len(entries) :
                               entries[m].row.date <= entries[n].row.date } }

\* reset_index(drop=True): the rows alone
reset_index(entries) == [i \in 1..Len(entries) |-> entries[i].row]

\* lines 175-188: the outcomes of combining the collected fragments.  When
\* the deduplicated 'date' column holds tz-aware and tz-naive datetimes,
\* sort_values compares one with the other and raises TypeError, outside the
\* try of the loop; else the call returns one of the sorted histories.
Combine(frags) ==
    IF frags = <<>> THEN {[kind |-> "history", rows |-> <<>>]}
    ELSE LET kept == drop_duplicates(Concat(frags))
             mixed == \E m, n \in 1..Len(kept) :
                          kept[m].row.tz_aware # kept[n].row.tz_aware
         IN  IF mixed THEN {[kind |-> "raised", error |-> "TypeError"]}
             ELSE { [kind |-> "history", rows |-> reset_index(sorted)] :
                      sorted \in sort_values(kept) }

\* what the sources awaited so far have used of the budget of rows
Spent ==
    Len(Concat(all_matches))
    + Cardinality({k \in 1..Len(sources) : sources[k].raises})

InitMerge ==
    /\ NoRequests
    /\ pc = Awaiting[1]
    /\ NoCalls
    /\ NoFrames
    /\ sources = <<>>
    /\ all_matches = <<>>
    /\ NoRanks
    /\ rank = 0
    /\ features = NoFeatures
    /\ result = NoResult

\* the await of a source other than the last is over, the source having
\* raised or returned a fragment: the loop appends the fragment and is
\* suspended at the await of the next source
AwaitSource ==
    \E i \in 1..(Len(SourceNames) - 1) :
        /\ pc = Awaiting[i]
        /\ \E outcome \in SourceOutcomesByBudget[i][MaxRows - Spent] :
               sources' = Append(sources, outcome)
        /\ all_matches' = all_matches \o Awaited(sources', i)
        /\ pc' = Awaiting[i + 1]
        /\ UNCHANGED <<requestVars, rank_a, rank_b, features, result, rank,
                       frameVars, callVars>>

\* the await of the last source is over: the loop appends its fragment and
\* the call returns the merged history, or raises the TypeError of the sort
\* (lines 175-188)
GetExtendedMatchHistory ==
    /\ pc = Awaiting[Len(SourceNames)]
    /\ \E outcome \in SourceOutcomesByBudget[Len(SourceNames)][MaxRows - Spent] :
           sources' = Append(sources, outcome)
    /\ all_matches' = all_matches \o Awaited(sources', Len(SourceNames))
    /\ result' \in Combine(all_matches')
    /\ pc' = IF result'.kind = "raised" THEN "raised" ELSE "done"
    /\ UNCHANGED <<requestVars,
                   rank_a, rank_b, features, rank, frameVars, callVars>>

\* asyncio.timeout(45) of /api/predict runs out while the call is suspended:
\* CancelledError is raised at the await, which "except Exception" does not
\* catch
CancelHistory ==
    /\ \E i \in 1..Len(SourceNames) : pc = Awaiting[i]
    /\ result' = [kind |-> "raised", error |-> "CancelledError"]
    /\ pc' = "cancelled"
    /\ UNCHANGED <<requestVars, rank_a, rank_b, features, rank, sources,
                   all_matches, frameVars, callVars>>

SpecMerge ==
    InitMerge
    /\ [][AwaitSource \/ GetExtendedMatchHistory \/ CancelHistory]_vars

-----------------------------------------------------------------------------
(* Feature extraction (features.py)                                        *)
(*                                                                         *)
(* A match row is [age, result, games_won, games_lost, score]: age is the  *)
(* time from the match's date to reference_date in half days (so that a    *)
(* cutoff such as date >= reference_date - 14 days and the whole number of *)
(* days (reference_date - date).days can differ), score is the sequence of *)
(* the games' <<points, opponent's points>>, empty for an empty string.    *)
(* A history is a sequence of rows, newest first; an empty DataFrame is    *)
(* the empty sequence.  h2h_df, which may be None, is None or              *)
(* DataFrame(rows).                                                        *)
(* Elo ratings are held in thousandths of a point; shares, weights,        *)
(* averages and slopes in units of 1/U.                                    *)

\* h2h_df is None or h2h_df.empty
NoneOrEmpty(df) == IF df.frame THEN df.rows = <<>> ELSE TRUE

\* timedelta(days=d) in half days
Days(d) == 2 * d

\* (reference_date - date).days
days_ago(match) == match.age \div 2

\* 0.5 ** (days / half_life)
decay(days, half_life) == ExpNeg(RoundDiv(days * LN2, half_life))

\* np.sum of a sequence of numbers
RECURSIVE Sum(_)
Sum(s) == IF s = <<>> THEN 0 ELSE Head(s) + Sum(Tail(s))

head_unlimited(hist, n) == hist

\* DataFrame.head(n)
head(hist, n) == SubSeq(hist, 1, Min(n, Len(hist)))

\* share of the games decided by 3 points or fewer; 0.5 without a score
analyze_score_quality(score) ==
    IF score = <<>> THEN 500000
    ELSE RoundDiv(Len(SelectSeq(score, LAMBDA g : Abs(g[1] - g[2]) <= 3)) * U, Len(score))

estimate_opponent_strength(match) ==
    LET total_games == match.games_won + match.games_lost
    IN  IF total_games = 0 THEN 500000
        ELSE LET score_ratio == RoundDiv(match.games_won * U, total_games)
                 score_quality == analyze_score_quality(Get(match, "score", <<>>))
                 strength == RoundDiv(score_ratio * 7 + score_quality * 3, 10)
             IN  Min(U, Max(0, strength))

HALF_LIFE_DAYS == 180

K == 32

\* the change of the rating one match makes, in units of 1/U of a point
elo_step(match) ==
    LET weight == decay(days_ago(match), HALF_LIFE_DAYS)
        adjusted_K == K * U + (K \div 2) * estimate_opponent_strength(match)
    IN  IF match.result = "W" THEN MulU(adjusted_K, weight)
        ELSE 0 - RoundDiv(MulU(adjusted_K, weight), 2)

\* returns the rating in thousandths and the mean weighted opponent strength
calculate_enhanced_elo(hist) ==
    IF hist = <<>> THEN [elo |-> 1500000, quality |-> 0]
    ELSE LET steps == [i \in 1..Len(hist) |-> elo_step(hist[i])]
             qualities == [i \in 1..Len(hist) |->
                              MulU(estimate_opponent_strength(hist[i]),
                                   decay(days_ago(hist[i]), HALF_LIFE_DAYS))]
             elo == 1500000 + RoundDiv(Sum(steps), 1000)
         IN  [elo |-> Max(1000000, Min(2500000, elo)),
              quality |-> RoundDiv(Sum(qualities), Len(hist))]

IsWin(match) == match.result = "W"

\* (hist['result'] == 'W').sum()
Wins(hist) == Len(SelectSeq(hist, IsWin))

\* the quality score of one match: 1 + strength for a win, 0 for a loss
quality_score(match) ==
    IF match.result = "W" THEN U + estimate_opponent_strength(match) ELSE 0

calculate_enhanced_form_zero_default(hist, n_matches) ==
    [win_rate |-> 0, avg_game_diff |-> 0, matches_played |-> 0,
     quality_adjusted_win_rate |-> 0, recent_momentum |-> 0]

calculate_enhanced_form(hist, n_matches) ==
    IF hist = <<>>
    THEN [win_rate |-> 500000, avg_game_diff |-> 0, matches_played |-> 0,
          quality_adjusted_win_rate |-> 500000, recent_momentum |-> 0]
    ELSE LET recent == head(hist, n_matches)
             wins == Wins(recent)
             total == Len(recent)
             win_rate == IF total > 0 THEN RoundDiv(wins * U, total) ELSE 500000
             game_diffs == [i \in 1..total |->
                               recent[i].games_won - recent[i].games_lost]
             avg_game_diff == RoundDiv(Sum(game_diffs) * U, total)
             quality_scores == [i \in 1..total |-> quality_score(recent[i])]
             quality_win_rate == RoundDiv(Sum(quality_scores) * 2, 3 * total)
             momentum_matches == Min(5, total)
             recent_wins == Wins(head(recent, momentum_matches))
             momentum == IF momentum_matches > 0
                         THEN RoundDiv(recent_wins * U, momentum_matches) - 500000
                         ELSE 0
         IN  [win_rate |-> win_rate, avg_game_diff |-> avg_game_diff,
              matches_played |-> total,
              quality_adjusted_win_rate |-> quality_win_rate,
              recent_momentum |-> momentum]

\* the rows of the i-th two-week period after the cutoff (i = 0 the oldest):
\* period_start <= date < period_end
period_matches(recent_matches, weeks, i) ==
    SelectSeq(recent_matches,
              LAMBDA m : /\ m.age <= Days(7 * (weeks - 2 * i))
                         /\ m.age > Days(7 * (weeks - 2 * i - 2)))

\* the win rates of the periods that have matches, oldest period first
RECURSIVE period_win_rates(_, _, _)
period_win_rates(recent_matches, weeks, i) ==
    IF i >= weeks \div 2 THEN <<>>
    ELSE LET pm == period_matches(recent_matches, weeks, i)
         IN  (IF Len(pm) > 0 THEN <<RoundDiv(Wins(pm) * U, Len(pm))>>
                             ELSE <<>>)
             \o period_win_rates(recent_matches, weeks, i + 1)

\* np.polyfit(np.arange(len(y)), y, 1)[0]: the least-squares slope
polyfit_slope(y) ==
    LET n == Len(y)
        sx == Sum([i \in 1..n |-> i - 1])
        sxx == Sum([i \in 1..n |-> (i - 1) * (i - 1)])
        sy == Sum(y)
        sxy == Sum([i \in 1..n |-> (i - 1) * y[i]])
    IN  RoundDiv(n * sxy - sx * sy, n * sxx - sx * sx)

\* np.var: the mean squared deviation from the mean
var(y) ==
    LET n == Len(y)
        mean == RoundDiv(Sum(y), n)
    IN  RoundDiv(Sum([i \in 1..n |-> MulU(y[i] - mean, y[i] - mean)]), n)

calculate_performance_trend_from_two(hist, weeks) ==
    LET recent_matches == SelectSeq(hist, LAMBDA m : m.age <= Days(7 * weeks))
        periods == period_win_rates(recent_matches, weeks, 0)
    IN  IF Len(recent_matches) >= 2 /\ Len(periods) >= 2
        THEN [trend |-> polyfit_slope(periods),
              consistency |-> Max(0, Min(U, U - var(periods)))]
        ELSE [trend |-> 0, consistency |-> 500000]

calculate_performance_trend(hist, weeks) ==
    IF hist = <<>> THEN [trend |-> 0, consistency |-> 500000]
    ELSE LET recent_matches == SelectSeq(hist, LAMBDA m : m.age <= Days(7 * weeks))
         IN  IF Len(recent_matches) < 3 THEN [trend |-> 0, consistency |-> 500000]
             ELSE LET periods == period_win_rates(recent_matches, weeks, 0)
                  IN  IF Len(periods) >= 2
                      THEN [trend |-> polyfit_slope(periods),
                            consistency |-> Max(0, Min(U, U - var(periods)))]
                      ELSE [trend |-> 0, consistency |-> 500000]

calculate_fatigue(hist) ==
    IF hist = <<>> THEN [matches_last_14d |-> 0, matches_last_30d |-> 0]
    ELSE [matches_last_14d |-> Len(SelectSeq(hist, LAMBDA m : m.age <= Days(14))),
          matches_last_30d |-> Len(SelectSeq(hist, LAMBDA m : m.age <= Days(30)))]

\* least age of the rows: the age of h2h_df['date'].max()
RECURSIVE MinAge(_)
MinAge(rows) ==
    IF Len(rows) = 1 THEN rows[1].age
    ELSE Min(rows[1].age, MinAge(Tail(rows)))

\* line 328: 1 if x == 'A' else -1
h2h_sign(match) == IF match.winner = "A" THEN 1 ELSE 0 - 1

H2H_HALF_LIFE_OF_RATING == HALF_LIFE_DAYS

\* the half-life of the head-to-head weights, line 316
H2H_HALF_LIFE_DAYS == 365

calculate_h2h(h2h) ==
    IF NoneOrEmpty(h2h)
    THEN [n_matches |-> 0, n_effective |-> 0, a_win_rate |-> 500000,
          avg_game_diff_a |-> 0, days_since_last |-> 9999]
    ELSE LET rows == h2h.rows
             n_matches == Len(rows)
             recent_h2h == SelectSeq(rows, LAMBDA m : m.age <= Days(730))
             weights == [i \in 1..Len(recent_h2h) |->
                            decay(days_ago(recent_h2h[i]), H2H_HALF_LIFE_DAYS)]
             n_effective == IF recent_h2h # <<>> THEN Sum(weights) ELSE 0
             a_wins == Len(SelectSeq(rows, LAMBDA m : m.winner = "A"))
             a_win_rate == IF n_matches > 0 THEN RoundDiv(a_wins * U, n_matches)
                           ELSE 500000
             game_diffs == [i \in 1..n_matches |->
                               (rows[i].games_won - rows[i].games_lost)
                                   * h2h_sign(rows[i])]
             avg_game_diff == RoundDiv(Sum(game_diffs) * U, n_matches)
         IN  [n_matches |-> n_matches, n_effective |-> n_effective,
              a_win_rate |-> a_win_rate, avg_game_diff_a |-> avg_game_diff,
              days_since_last |-> MinAge(rows) \div 2]

extract_all_features(ha, hb, h2h, ra, rb) ==
    LET elo_a == calculate_enhanced_elo(ha)
        elo_b == calculate_enhanced_elo(hb)
    IN  [elo_a |-> elo_a.elo, elo_b |-> elo_b.elo,
         elo_diff |-> elo_a.elo - elo_b.elo,
         elo_quality_a |-> elo_a.quality, elo_quality_b |-> elo_b.quality,
         rank_a |-> ra, rank_b |-> rb,
         form_a |-> calculate_enhanced_form(ha, 20),
         form_b |-> calculate_enhanced_form(hb, 20),
         fatigue_a |-> calculate_fatigue(ha),
         fatigue_b |-> calculate_fatigue(hb),
         h2h |-> calculate_h2h(h2h),
         trend_a |-> calculate_performance_trend(ha, 12),
         trend_b |-> calculate_performance_trend(hb, 12)]

(* extract_all_features on the histories of the two competitors *)

\* the rows the histories are made of: 2, 14, 14.5, 30, 50, 84, 84.5, 180
\* and 500 days before reference_date
MatchRows ==
    { [age |-> 4, result |-> "W", games_won |-> 3, games_lost |-> 0,
       score |-> <<<<11, 5>>, <<11, 4>>, <<11, 6>>>>],
      [age |-> 28, result |-> "L", games_won |-> 2, games_lost |-> 3,
       score |-> <<<<11, 9>>, <<9, 11>>, <<11, 8>>, <<7, 11>>, <<10, 12>>>>],
      [age |-> 29, result |-> "W", games_won |-> 3, games_lost |-> 2,
       score |-> <<>>],
      [age |-> 60, result |-> "L", games_won |-> 0, games_lost |-> 3,
       score |-> <<<<0, 3>>>>],
      [age |-> 100, result |-> "W", games_won |-> 3, games_lost |-> 1,
       score |-> <<<<11, 9>>, <<5, 11>>, <<11, 2>>, <<12, 10>>>>],
      [age |-> 168, result |-> "W", games_won |-> 3, games_lost |-> 0,
       score |-> <<<<3, 0>>>>],
      [age |-> 169, result |-> "L", games_won |-> 1, games_lost |-> 3,
       score |-> <<<<11, 13>>, <<11, 6>>, <<4, 11>>, <<8, 11>>>>],
      [age |-> 360, result |-> "W", games_won |-> 3, games_lost |-> 2],
      [age |-> 1000, result |-> "L", games_won |-> 0, games_lost |-> 0,
       score |-> <<>>] }

\* rows of a history of competitor A: a history the aggregator returns
MaxHist == 3

\* newest first, as the aggregator sorts
Histories(rows, n) ==
    { h \in UNION { [1..len -> rows] : len \in 0..n } :
        \A i \in 1..(Len(h) - 1) : h[i].age <= h[i + 1].age }

\* the histories of competitor B: none, or three recent matches
HistoriesB ==
    { <<>>,
      <<[age |-> 6, result |-> "L", games_won |-> 1, games_lost |-> 3,
         score |-> <<<<11, 8>>, <<6, 11>>, <<9, 11>>, <<3, 11>>>>],
        [age |-> 40, result |-> "W", games_won |-> 3, games_lost |-> 0,
         score |-> <<<<11, 8>>, <<11, 9>>, <<11, 7>>>>],
        [age |-> 90, result |-> "W", games_won |-> 3, games_lost |-> 2,
         score |-> <<>>]>> }

\* what step 4 of /api/predict leaves in h2h_df: None after a timeout, an
\* empty frame, or head-to-head rows
H2HFrames ==
    { None, DataFrame(<<>>),
      DataFrame(<<[age |-> 29, result |-> "W", winner |-> "A",
                   games_won |-> 3, games_lost |-> 2, score |-> <<>>]>>),
      DataFrame(<<[age |-> 60, result |-> "L", winner |-> "B",
                   games_won |-> 0, games_lost |-> 3, score |-> <<<<0, 3>>>>],
                  [age |-> 1000, result |-> "L", winner |-> "B",
                   games_won |-> 0, games_lost |-> 0, score |-> <<>>]>>) }

InitFeatures ==
    /\ NoRequests
    /\ pc = "idle"
    /\ NoCalls
    /\ hist_a \in Histories(MatchRows, MaxHist)
    /\ hist_b \in HistoriesB
    /\ h2h_df \in H2HFrames
    /\ rank_a = 5
    /\ rank_b = 30
    /\ rank = 0
    /\ NoMerge
    /\ features = NoFeatures
    /\ result = NoResult

ExtractAllFeatures ==
    /\ pc = "idle"
    /\ features' = extract_all_features(hist_a, hist_b, h2h_df, rank_a, rank_b)
    /\ pc' = "done"
    /\ UNCHANGED <<requestVars,
                   rank_a, rank_b, result, rank, sources, all_matches,
                   frameVars, callVars>>

SpecFeatures == InitFeatures /\ [][ExtractAllFeatures]_vars

(* Step 5 of /api/predict (app.py 200-273): the feature bundle handed to   *)
(* model.predict_match.  hist_a and hist_b are what step 3 left: None      *)
(* after a failed fetch, or the merged history as a frame.                 *)

\* app.py 248-271 (and 224-246): the bundle built from the ranks alone, its
\* ratings in whole Elo points
ranking_only_features(ra, rb) ==
    LET elo_a == Max(1000, 2200 - ra * 5)
        elo_b == Max(1000, 2200 - rb * 5)
    IN  [elo_a |-> elo_a, elo_b |-> elo_b, elo_diff |-> elo_a - elo_b,
         rank_a |-> ra, rank_b |-> rb,
         form_a |-> [win_rate |-> 600000, avg_game_diff |-> 500000,
                     matches_played |-> 0],
         form_b |-> [win_rate |-> 550000, avg_game_diff |-> 300000,
                     matches_played |-> 0],
         fatigue_a |-> [matches_last_14d |-> 0, matches_last_30d |-> 0],
         fatigue_b |-> [matches_last_14d |-> 0, matches_last_30d |-> 0],
         h2h |-> [n_matches |-> 0, n_effective |-> 0, a_win_rate |-> 500000,
                  avg_game_diff_a |-> 0, days_since_last |-> 9999]]

InitApi ==
    /\ NoRequests
    /\ pc = "idle"
    /\ NoCalls
    /\ NoMerge
    /\ rank = 0
    /\ features = NoFeatures
    /\ result = NoResult
    /\ hist_a \in {None} \cup { DataFrame(h) : h \in Histories(MatchRows, MaxHist - 1) }
    /\ hist_b \in {None} \cup { DataFrame(h) : h \in HistoriesB }
    /\ h2h_df \in H2HFrames
    /\ rank_a \in {1, 5, 250}
    /\ rank_b \in {5, 30, 400}

\* line 203 and its two branches
FeatureDict ==
    /\ pc = "idle"
    /\ features' =
          IF ~NoneOrEmpty(hist_a) /\ ~NoneOrEmpty(hist_b)
          THEN extract_all_features(hist_a.rows, hist_b.rows, h2h_df,
                                    rank_a, rank_b)
          ELSE ranking_only_features(rank_a, rank_b)
    /\ pc' = "done"
    /\ UNCHANGED <<requestVars, rank_a, rank_b, result, rank, sources,
                   all_matches, frameVars, callVars>>

SpecApi == InitApi /\ [][FeatureDict]_vars

(* extract_all_features on long histories *)

\* the longest history
MaxLong == 22

\* a history of n matches, one a day from yesterday back: all won 3-1
\* ("W"), all lost 1-3 ("L"), or won and lost in turn ("WL")
LongHistory(n, pattern) ==
    [i \in 1..n |->
        IF pattern = "W" \/ (pattern = "WL" /\ i % 2 = 1)
        THEN [age |-> 2 * i, result |-> "W", games_won |-> 3, games_lost |-> 1,
              score |-> <<<<11, 9>>, <<7, 11>>, <<11, 3>>, <<12, 10>>>>]
        ELSE [age |-> 2 * i, result |-> "L", games_won |-> 1, games_lost |-> 3]]

InitLong ==
    /\ NoRequests
    /\ pc = "idle"
    /\ NoCalls
    /\ NoMerge
    /\ rank = 0
    /\ features = NoFeatures
    /\ result = NoResult
    /\ \E n \in 0..MaxLong, pattern \in {"W", "L", "WL"} :
          hist_a = LongHistory(n, pattern)
    /\ \E n \in {0, 19, 20, MaxLong}, pattern \in {"W", "WL"} :
          hist_b = LongHistory(n, pattern)
    /\ h2h_df = None
    /\ rank_a = 5
    /\ rank_b = 30

SpecLong == InitLong /\ [][ExtractAllFeatures]_vars

-----------------------------------------------------------------------------
(* generate_explanation called on its own, as the tests call it *)

InitExplain ==
    /\ NoRequests
    /\ pc = "idle"
    /\ NoCalls
    /\ NoFrames
    /\ rank_a \in {5, 60}
    /\ rank_b \in {5, 60}
    /\ \E elo_diff \in {-200, -151, -150, 0, 150, 151, 200},
          wa, wb \in {300000, 312500, 500000, 650000, 700000},
          h2h \in [n_matches : {0, 2, 3}, n_effective : {2500000},
                   a_win_rate : {300000, 400000, 500000, 600000, 670000}] :
          features = [elo_diff |-> elo_diff, rank_a |-> rank_a, rank_b |-> rank_b,
                      form_a |-> [win_rate |-> wa, matches_played |-> 15],
                      form_b |-> [win_rate |-> wb, matches_played |-> 12],
                      h2h |-> h2h]
    /\ rank = 0
    /\ NoMerge
    /\ result = NoResult

GenerateExplanation ==
    /\ pc = "idle"
    /\ \E tier_gap \in 0..5 :
          result' = [kind |-> "explanation", tier_gap |-> tier_gap,
                     explain |-> generate_explanation(features, rank_a, rank_b,
                                                      750000, tier_gap)]
    /\ pc' = "done"
    /\ UNCHANGED <<requestVars,
                   rank_a, rank_b, features, rank, sources, all_matches, frameVars,
                   callVars>>

SpecExplain == InitExplain /\ [][GenerateExplanation]_vars

-----------------------------------------------------------------------------
(* The ranking snapshot of a competitor (rankings.py, schemas.py) *)

\* str.lower() on the names of the model
lower ==
    [n \in {"Ali Farag", "ali farag", "ALI FARAG", "Nour El Sherbini", "Nobody"}
       |-> IF n \in {"Ali Farag", "ALI FARAG"} THEN "ali farag"
           ELSE IF n = "Nour El Sherbini" THEN "nour el sherbini"
           ELSE IF n = "Nobody" THEN "nobody" ELSE n]

\* RankingSnapshot(rank=..., points=..., snapshot_date=today): pydantic
\* validates rank as conint(ge=1, le=500) and points as
\* conint(ge=0, le=200_000) and raises ValidationError otherwise; today is
\* never older than 90 days
RankingSnapshot(a_rank, points) ==
    IF a_rank >= 1 /\ a_rank <= 500 /\ points >= 0 /\ points <= 200000
    THEN [kind |-> "RankingSnapshot", rank |-> a_rank, points |-> points]
    ELSE [kind |-> "raised", error |-> "ValidationError"]

\* get_all_ranked_players: the list of the response, [] after any error
get_all_ranked_players(response) ==
    IF response.ok THEN response.players ELSE <<>>

\* the first player of the list whose lower-cased Name is the lower-cased
\* player_name, as a sequence of at most one player
RECURSIVE first_named(_, _)
first_named(players, name) ==
    IF players = <<>> THEN <<>>
    ELSE IF Get(Head(players), "Name", "") # ""
            /\ lower[Head(players).Name] = lower[name]
         THEN <<Head(players)>>
         ELSE first_named(Tail(players), name)

\* get_ranking_snapshot_psa run to its end: the snapshot of the first entry
\* found, the male list being searched first, or of rank 999
get_ranking_snapshot_psa(ranked, name) ==
    LET found == first_named(get_all_ranked_players(ranked.male), name)
                 \o first_named(get_all_ranked_players(ranked.female), name)
    IN  IF found # <<>>
        THEN RankingSnapshot(Get(found[1], "World_Ranking", 999),
                             Get(found[1], "Total_Points", 0))
        ELSE RankingSnapshot(999, 0)

\* the entries of the ranking lists; a key of the response can be missing
RankedPlayers ==
    { [Name |-> "Ali Farag", World_Ranking |-> 1, Total_Points |-> 20000],
      [Name |-> "ALI FARAG", World_Ranking |-> 500, Total_Points |-> 150],
      [Name |-> "Nour El Sherbini", World_Ranking |-> 2, Total_Points |-> 0],
      [Name |-> "Nour El Sherbini", Total_Points |-> 90],
      [World_Ranking |-> 7, Total_Points |-> 10] }

\* players of one ranking list
MaxListed == 2

\* the call of get_ranking_snapshot_psa suspended at its first await, the
\* request for the male list (line 54, and line 36 inside it); rankings is
\* what the PSA API answers to each of the two requests
InitRanking ==
    /\ pc = "await_male"
    /\ NoFrames
    /\ NoCalls
    /\ NoRanks
    /\ rank = 0
    /\ NoMerge
    /\ features = NoFeatures
    /\ result = NoResult
    /\ login_attempts = [ip \in IPs |-> <<>>]
    /\ lockouts = [ip \in {} |-> 0]
    /\ now = 0
    /\ logins = <<>>
    /\ player_name \in {"Ali Farag", "ali farag", "Nour El Sherbini", "Nobody"}
    /\ \E m \in UNION { [1..n -> RankedPlayers] : n \in 0..MaxListed },
          f \in UNION { [1..n -> RankedPlayers] : n \in 0..1 } :
          rankings \in { [male |-> a, female |-> b] :
                           a \in {[ok |-> FALSE], [ok |-> TRUE, players |-> m]},
                           b \in {[ok |-> FALSE], [ok |-> TRUE, players |-> f]} }

\* lines 53-57, first pass of the loop: the await of the male list is over
\* and the name is not in it; the call sends the request for the female list
\* and is suspended at that await
AwaitRankedPlayers ==
    /\ pc = "await_male"
    /\ first_named(get_all_ranked_players(rankings.male), player_name) = <<>>
    /\ pc' = "await_female"
    /\ UNCHANGED <<requestVars, rank_a, rank_b, features, result, rank,
                   sources, all_matches, frameVars, callVars>>

\* the await of a list is over and the call ends: the name is in the male
\* list (lines 57-62), or the female list was the one awaited (lines 57-69)
GetRankingSnapshot ==
    /\ \/ /\ pc = "await_male"
          /\ first_named(get_all_ranked_players(rankings.male), player_name)
                 # <<>>
       \/ pc = "await_female"
    /\ result' = get_ranking_snapshot_psa(rankings, player_name)
    /\ pc' = "done"
    /\ UNCHANGED <<requestVars, rank_a, rank_b, features, rank,
                   sources, all_matches, frameVars, callVars>>

\* the task of the call is cancelled while it is suspended at a request:
\* CancelledError is raised at the await of line 36, which "except
\* Exception" does not catch, and the call ends without a snapshot
CancelRanking ==
    /\ pc \in {"await_male", "await_female"}
    /\ result' = [kind |-> "raised", error |-> "CancelledError"]
    /\ pc' = "cancelled"
    /\ UNCHANGED <<requestVars, rank_a, rank_b, features, rank,
                   sources, all_matches, frameVars, callVars>>

SpecRanking ==
    InitRanking
    /\ [][AwaitRankedPlayers \/ GetRankingSnapshot \/ CancelRanking]_vars

-----------------------------------------------------------------------------
(* predict_match calls with their seeds *)

\* the arguments of the calls: two feature bundles, two rank orders (four
\* different final probabilities, each more than 1e-4 from a rounding tie)
\* and two seeds
CallArgs ==
    { [features |-> f, rank_a |-> r[1], rank_b |-> r[2], seed |-> s] :
        f \in { [elo_diff |-> e, form_a |-> fa, form_b |-> fb, h2h |-> h] :
                  e \in {0, 180},
                  fa \in { g \in Forms : g.matches_played = 20 },
                  fb \in { g \in Forms : g.matches_played = 5 },
                  h \in { g \in H2Hs : g.n_matches = 6 } },
        r \in {<<4, 60>>, <<60, 4>>},
        s \in {7, 42} }

(* Calls of predict_match one after the other *)

MaxCalls == 3

InitSequential ==
    /\ NoRequests
    /\ pc = "idle"
    /\ NoFrames
    /\ NoRanks
    /\ rank = 0
    /\ NoMerge
    /\ features = NoFeatures
    /\ result = NoResult
    /\ np_random = np_random_at_import
    /\ calls = <<>>

PredictMatchSeeded ==
    /\ pc = "idle"
    /\ Len(calls) < MaxCalls
    /\ \E args \in CallArgs :
          \E run \in predict_match_seeded(np_random, args) :
              /\ calls' = Append(calls, [args |-> args, result |-> run.result])
              /\ np_random' = run.state
    /\ UNCHANGED <<requestVars,
                   pc, rank_a, rank_b, features, result, rank, sources,
                   all_matches, frameVars>>

SpecSequential == InitSequential /\ [][PredictMatchSeeded]_vars

(* Two calls of predict_match in two threads of one process.  A thread can *)
(* be switched between any two calls into numpy; calls[t].pc is the line   *)
(* thread t executes next.                                                 *)

Threads == {1, 2}

InitConcurrent ==
    /\ NoRequests
    /\ pc = "idle"
    /\ NoFrames
    /\ NoRanks
    /\ rank = 0
    /\ NoMerge
    /\ features = NoFeatures
    /\ result = NoResult
    /\ np_random = np_random_at_import
    /\ \E a1, a2 \in CallArgs :
          calls = <<[pc |-> "216", args |-> a1], [pc |-> "216", args |-> a2]>>

\* line 216: np.random.seed(seed)
SeedInPredict(t) ==
    /\ calls[t].pc = "216"
    /\ np_random' = np_random_seed(np_random, calls[t].args.seed)
    /\ calls' = [calls EXCEPT ![t] = [pc |-> "294", args |-> calls[t].args]]
    /\ UNCHANGED <<requestVars,
                   pc, rank_a, rank_b, features, result, rank, sources,
                   all_matches, frameVars>>

\* lines 218-294: the final probability, then np.random.seed(seed) of
\* bootstrap_ci
SeedInBootstrap(t) ==
    /\ calls[t].pc = "294"
    /\ np_random' = np_random_seed(np_random, calls[t].args.seed)
    /\ \E prediction \in predict_match(calls[t].args.features,
                                        calls[t].args.rank_a,
                                        calls[t].args.rank_b) :
          calls' = [calls EXCEPT ![t] =
                       [pc |-> "297", args |-> calls[t].args,
                        prediction |-> prediction]]
    /\ UNCHANGED <<requestVars,
                   pc, rank_a, rank_b, features, result, rank, sources,
                   all_matches, frameVars>>

\* lines 297-301: samples_a = np.random.beta(...)
DrawSamples(t) ==
    /\ calls[t].pc = "297"
    /\ LET drawn == bootstrap_draw(np_random, calls[t].prediction.p_final_a, 500)
       IN  /\ np_random' = drawn.state
           /\ calls' = [calls EXCEPT ![t] =
                           [pc |-> "303", args |-> calls[t].args,
                            prediction |-> calls[t].prediction,
                            samples_a |-> drawn.samples]]
    /\ UNCHANGED <<requestVars,
                   pc, rank_a, rank_b, features, result, rank, sources,
                   all_matches, frameVars>>

\* lines 303-314 and 269-279: the intervals, the winner, the explanation
Return(t) ==
    /\ calls[t].pc = "303"
    /\ calls' = [calls EXCEPT ![t] =
                    [pc |-> "done", args |-> calls[t].args,
                     result |-> returned_dict(calls[t].args, calls[t].prediction,
                                    percentile_intervals(calls[t].samples_a))]]
    /\ UNCHANGED <<requestVars,
                   pc, rank_a, rank_b, features, result, rank, sources,
                   all_matches, frameVars, np_random>>

SpecConcurrent ==
    InitConcurrent
    /\ [][\E t \in Threads : \/ SeedInPredict(t) \/ SeedInBootstrap(t)
                             \/ DrawSamples(t) \/ Return(t)]_vars

-----------------------------------------------------------------------------
(* calculate_evidence_weight and h2h_adjustment called on their own *)

\* matches_played of the enumerated forms runs over 0..MaxPlayed and over
\* counts around 100, where the weight reaches 1
MaxPlayed == 24

InitEvidence ==
    /\ NoRequests
    /\ pc = "idle"
    /\ NoCalls
    /\ NoFrames
    /\ NoMerge
    /\ rank = 0
    /\ rank_a = 50
    /\ rank_b = 50
    /\ result = NoResult
    /\ \/ \E n_a, n_b \in (0..MaxPlayed) \cup {99, 100, 101, 150, 250} :
             features = [form_a |-> [win_rate |-> 500000, matches_played |-> n_a],
                         form_b |-> [win_rate |-> 500000, matches_played |-> n_b],
                         h2h |-> [n_matches |-> 5, n_effective |-> 4500000,
                                  a_win_rate |-> 800000]]
       \/ \E h2h \in [n_matches : {0, 1, 5},
                      n_effective : {0, 1999999, 2000000, 2999999, 3000000,
                                     4999999, 5000000, 8000000},
                      a_win_rate : {0, 250000, 490000, 500000, 510000,
                                    750000, 1000000}] :
             features = [form_a |-> [win_rate |-> 500000, matches_played |-> 10],
                         form_b |-> [win_rate |-> 500000, matches_played |-> 10],
                         h2h |-> h2h]

CalculateEvidenceWeight ==
    /\ pc = "idle"
    /\ result' = [kind |-> "weight", w |-> calculate_evidence_weight(features)]
    /\ pc' = "done"
    /\ UNCHANGED <<requestVars,
                   rank_a, rank_b, features, rank, sources, all_matches,
                   frameVars, callVars>>

H2HAdjustment ==
    /\ pc = "idle"
    /\ result' = [kind |-> "h2h_adjustment",
                  delta_logit |-> h2h_adjustment(features, rank_a, rank_b)]
    /\ pc' = "done"
    /\ UNCHANGED <<requestVars,
                   rank_a, rank_b, features, rank, sources, all_matches,
                   frameVars, callVars>>

SpecEvidence ==
    InitEvidence /\ [][CalculateEvidenceWeight \/ H2HAdjustment]_vars

-----------------------------------------------------------------------------
(* Step 4 of /api/predict and calculate_h2h: the head-to-head summary *)

\* an exception that leaves the function
Raised(error) == [frame |-> FALSE, raised |-> error]

\* fetch.get_match_history, lines 112-137: the PSA website history when the
\* scraper returned matches; the function ends after the except clause with
\* no return statement, which returns None
get_match_history(psa_website) ==
    IF ~psa_website.raises /\ psa_website.rows # <<>>
    THEN DataFrame(psa_website.rows)
    ELSE None

\* a column of a frame built from dicts: some row has the key
HasColumn(rows, column) == \E i \in DOMAIN rows : column \in DOMAIN rows[i]

\* fetch.get_h2h after line 346, on the value get_match_history returned:
\* A's matches against B, with the winner column
get_h2h(hist, player_b_id) ==
    IF ~hist.frame THEN Raised("AttributeError")
    ELSE IF hist.rows = <<>> THEN DataFrame(<<>>)
    ELSE IF ~HasColumn(hist.rows, "opponent_id") THEN Raised("KeyError")
    ELSE LET h2h == SelectSeq(hist.rows,
                              LAMBDA m : /\ "opponent_id" \in DOMAIN m
                                         /\ m.opponent_id = player_b_id)
         IN  DataFrame([i \in 1..Len(h2h) |->
                           [age |-> h2h[i].age, opponent_id |-> h2h[i].opponent_id,
                            result |-> h2h[i].result,
                            games_won |-> h2h[i].games_won,
                            games_lost |-> h2h[i].games_lost,
                            winner |-> IF h2h[i].result = "W" THEN "A" ELSE "B"]])

\* rows of A's history in the head-to-head lookup
MaxH2H == 3

\* H2HRows: A's matches against B (id 2) and against another player (id 3), won 3-1
\* or lost 1-3, played 10, 180, 365, 730, 730.5 and 800 days before
\* reference_date
InitH2H ==
    /\ NoRequests
    /\ pc = "idle"
    /\ NoCalls
    /\ NoMerge
    /\ NoRanks
    /\ rank = 0
    /\ features = NoFeatures
    /\ result = NoResult
    /\ LET H2HRows ==
               { [age |-> a, opponent_id |-> o, result |-> r[1],
                  games_won |-> r[2], games_lost |-> r[3]] :
                   a \in {20, 360, 730, 1460, 1461, 1600}, o \in {2, 3},
                   r \in {<<"W", 3, 1>>, <<"L", 1, 3>>} }
       IN  hist_a \in Histories(H2HRows, MaxH2H)
    /\ hist_b = <<>>
    /\ h2h_df = None

\* app.py 175-199: h2h_df is what get_h2h returns, or stays None when the
\* lookup times out or raises
GetH2H ==
    /\ pc = "idle"
    /\ \/ h2h_df' = get_h2h(DataFrame(hist_a), 2)
       \/ h2h_df' = None
    /\ pc' = "fetched"
    /\ UNCHANGED <<requestVars,
                   rank_a, rank_b, features, result, rank, sources, all_matches,
                   hist_a, hist_b, callVars>>

CalculateH2H ==
    /\ pc = "fetched"
    /\ result' = [kind |-> "h2h", h2h |-> calculate_h2h(h2h_df)]
    /\ pc' = "done"
    /\ UNCHANGED <<requestVars,
                   rank_a, rank_b, features, rank, sources, all_matches,
                   frameVars, callVars>>

SpecH2H == InitH2H /\ [][GetH2H \/ CalculateH2H]_vars

(* get_match_history and get_h2h on what the PSA website scraper delivers: *)
(* rows without an opponent_id column (scraper.py 227-238), no rows, or an *)
(* exception                                                               *)

InitHistory ==
    /\ NoRequests
    /\ pc = "idle"
    /\ NoCalls
    /\ NoFrames
    /\ NoRanks
    /\ rank = 0
    /\ features = NoFeatures
    /\ result = NoResult
    /\ all_matches = <<>>
    /\ \E rows \in Histories(MatchRows, MaxHist) :
          sources \in {<<[raises |-> FALSE, rows |-> rows]>>,
                       <<[raises |-> TRUE, rows |-> <<>>]>>}

\* a call of get_match_history
GetMatchHistory ==
    /\ pc = "idle"
    /\ result' = [kind |-> "history", value |-> get_match_history(sources[1])]
    /\ pc' = "history"
    /\ UNCHANGED <<requestVars, rank_a, rank_b, features, rank, sources,
                   all_matches, frameVars, callVars>>

\* app.py 175-199: get_h2h awaits get_match_history (line 346) and works on
\* what it returned; an exception leaves h2h_df None
GetH2HOfHistory ==
    /\ pc = "idle"
    /\ result' = [kind |-> "h2h",
                  value |-> get_h2h(get_match_history(sources[1]), 2)]
    /\ h2h_df' = IF result'.value.frame THEN result'.value ELSE None
    /\ pc' = "h2h"
    /\ UNCHANGED <<requestVars, rank_a, rank_b, features, rank, sources,
                   all_matches, hist_a, hist_b, callVars>>

SpecHistory == InitHistory /\ [][GetMatchHistory \/ GetH2HOfHistory]_vars

-----------------------------------------------------------------------------
(* Properties of predict_match, checked under Spec *)

\* the probabilities of the worse-ranked and of the better-ranked competitor
UnderdogP == IF rank_a > rank_b THEN result.p_final_a ELSE result.p_final_b

FavoriteP == IF rank_a > rank_b THEN result.p_final_b ELSE result.p_final_a

UnderdogProba == IF rank_a > rank_b THEN result.proba.A ELSE result.proba.B

FavoriteProba == IF rank_a > rank_b THEN result.proba.B ELSE result.proba.A

Favorite == IF rank_a > rank_b THEN "B" ELSE "A"

TierGap == Abs(get_tier(rank_a) - get_tier(rank_b))

\* the cap table of the specification, section 4.3
CapTable == (0 :> 450000) @@ (1 :> 400000) @@ (2 :> 350000) @@ (3 :> 250000)
            @@ (4 :> 150000) @@ (5 :> 100000)

\* the underdog leads the favourite in Elo by at least 180 points
UnderdogEloLead ==
    IF rank_a > rank_b THEN features.elo_diff >= 180
                       ELSE 0 - features.elo_diff >= 180

\* the underdog's share of the head-to-head wins is at least 70%
UnderdogH2HShare70 ==
    IF rank_a > rank_b THEN features.h2h.a_win_rate >= 700000
                       ELSE U - features.h2h.a_win_rate >= 700000

\* C1: with a tier gap of 4 or more and no head-to-head match, the underdog's
\* final probability is at most 0.15, the favourite's at least 0.85, and the
\* favourite is the winner, whatever the other features are.
C1_LargeGapNoH2H ==
    (pc = "done" /\ features.h2h.n_matches = 0 /\ TierGap >= 4) =>
        /\ UnderdogP <= 150000
        /\ FavoriteP >= 850000
        /\ UnderdogProba <= 150
        /\ FavoriteProba >= 850
        /\ result.winner = Favorite

\* C1 witness: gap >= 4, no head-to-head, the underdog leads in Elo by 500 and
\* the blend alone would have given the underdog more than 0.15.
C1_Witness ==
    /\ pc = "done" /\ features.h2h.n_matches = 0 /\ TierGap >= 4
    /\ rank_a > rank_b /\ features.elo_diff = 500
    /\ result.p_blend > 150000
    /\ result.proba.A = 150

\* C2: the better-ranked competitor's final probability is at least 0.52 and
\* the other's at most 0.48.
C2_MonotonicityFloor ==
    (pc = "done" /\ rank_a # rank_b) =>
        /\ FavoriteP >= 520000
        /\ UnderdogP <= 480000
        /\ FavoriteProba >= 520
        /\ UnderdogProba <= 480

\* C2 witness: the better-ranked A was below 0.52 after blending and
\* guardrail, and the floor raised it to 0.52.
C2_Witness ==
    /\ pc = "done" /\ rank_a < rank_b
    /\ result.p_blend < 520000 /\ ~result.capped
    /\ result.p_final_a = 520000

\* C4: for all valid inputs of predict_match, the two reported probabilities,
\* each rounded to three decimals, sum to exactly 1 (1000 thousandths).
C4_ProbaSumOne ==
    pc = "done" => result.proba.A + result.proba.B = 1000

\* C5: tier gap >= 3, fewer than 3 head-to-head matches and fewer than 2
\* override conditions: the underdog's final probability is at most the table
\* cap of the gap, which is the cap ranking_prior uses for that gap.
C5_GuardrailCap ==
    (/\ pc = "done" /\ TierGap >= 3 /\ features.h2h.n_matches < 3
     /\ ~(UnderdogEloLead /\ features.h2h.n_matches >= 5 /\ UnderdogH2HShare70)) =>
        /\ UnderdogP <= CapTable[TierGap]
        /\ UnderdogProba * 1000 <= CapTable[TierGap]
        /\ guardrail_cap(TierGap) = underdog_caps(TierGap)

\* C5 witness: gap 4, two head-to-head matches won by the underdog, one
\* override condition (the Elo lead) holds, and the cap cut the blend to 0.15.
C5_Witness ==
    /\ pc = "done" /\ TierGap = 4 /\ features.h2h.n_matches = 2
    /\ UnderdogEloLead
    /\ rank_a > rank_b /\ result.p_blend > 150000
    /\ result.p_final_a = 150000

\* C6 as stated: with a tier gap >= 3, at least 5 head-to-head matches and an
\* underdog win share >= 70%, check_override_conditions returns true and the
\* cap is not applied.
C6_Original ==
    (/\ pc = "done" /\ TierGap >= 3
     /\ features.h2h.n_matches >= 5 /\ UnderdogH2HShare70) =>
        /\ check_override_conditions(features, rank_a, rank_b, TierGap)
        /\ ~result.capped

\* C6 amended: with a tier gap >= 3, at least 5 head-to-head matches and an
\* underdog win share >= 70%, the guardrail is not reached, because it needs
\* fewer than 3 head-to-head matches: check_override_conditions is not called,
\* the cap is not applied and the final probability is the blend limited only
\* by the 0.52/0.48 floor.  check_override_conditions itself is true on such
\* features only when the underdog also leads in Elo by 180 or more.
C6_StrongH2HSkipsGuardrail ==
    (/\ pc = "done" /\ TierGap >= 3
     /\ features.h2h.n_matches >= 5 /\ UnderdogH2HShare70) =>
        /\ ~result.override_called
        /\ ~result.capped
        /\ result.p_final_a = monotonicity(result.p_blend, rank_a, rank_b)
        /\ check_override_conditions(features, rank_a, rank_b, TierGap)
              <=> UnderdogEloLead

\* C6 witness: such a head-to-head lead, no Elo lead of the underdog, and a
\* final probability of the underdog above the cap of the gap.
C6_Witness ==
    /\ pc = "done" /\ TierGap >= 3
    /\ features.h2h.n_matches >= 5 /\ UnderdogH2HShare70
    /\ ~UnderdogEloLead
    /\ UnderdogP > CapTable[TierGap]

-----------------------------------------------------------------------------
(* Properties of ranking_prior, checked under SpecPrior *)

\* the tier breakpoints of the specification, section 4.3
TierOf(r) ==
    IF r <= 5 THEN 0
    ELSE IF r <= 20 THEN 1
    ELSE IF r <= 50 THEN 2
    ELSE IF r <= 100 THEN 3
    ELSE IF r <= 200 THEN 4
    ELSE 5

\* C3: for unequal ranks neither component of the prior is 0.5 and the
\* component of the numerically lower rank is above 0.5.
C3_NeverFiftyFifty ==
    (pc = "done" /\ rank_a # rank_b) =>
        /\ result.p_a # 500000
        /\ result.p_b # 500000
        /\ rank_a < rank_b => result.p_a > 500000
        /\ rank_b < rank_a => result.p_b > 500000

\* C3 witness: B has the better rank, in another tier, and gets more than 0.5.
C3_Witness ==
    /\ pc = "done" /\ rank_b < rank_a
    /\ TierOf(rank_b) < TierOf(rank_a)
    /\ result.p_b > 500000

\* C7: the prior is (0.52, 0.48) on a tie; otherwise the underdog gets the
\* table cap of tier(underdog) - tier(favourite) and the favourite the rest,
\* the favourite being the lower rank, in (A, B) order.
C7_PriorIsReference ==
    pc = "done" =>
        LET fav == IF rank_a < rank_b THEN rank_a ELSE rank_b
            und == IF rank_a < rank_b THEN rank_b ELSE rank_a
            gap == TierOf(und) - TierOf(fav)
            cap == CapTable[gap]
        IN  IF rank_a = rank_b
            THEN result.p_a = 520000 /\ result.p_b = 480000
            ELSE IF rank_a < rank_b
            THEN result.p_a = U - cap /\ result.p_b = cap
            ELSE result.p_a = cap /\ result.p_b = U - cap

\* C7 witness: a tie answered (0.52, 0.48).
C7_Witness ==
    /\ pc = "done" /\ rank_a = rank_b
    /\ result.p_a = 520000 /\ result.p_b = 480000

-----------------------------------------------------------------------------
(* Properties of get_tier, checked under SpecTier *)

\* C8: get_tier is the step function 1-5 -> 0, 6-20 -> 1, 21-50 -> 2,
\* 51-100 -> 3, 101-200 -> 4, 201 and above -> 5 (ranks above 9999 included),
\* and it does not decrease from one rank to the next.
C8_TierStepFunction ==
    pc = "done" =>
        /\ result.tier = TierOf(rank)
        /\ rank > 9999 => result.tier = 5
        /\ rank > 1 => get_tier(rank - 1) <= result.tier

\* C8 witness: a rank above the last interval of TIERS, answered tier 5.
C8_Witness ==
    /\ pc = "done" /\ rank > 9999
    /\ result.tier = 5

-----------------------------------------------------------------------------
(* Properties of get_extended_match_history, checked under SpecMerge *)

\* the rows source i hands to the merge: none when it raises
Returned(i) == IF sources[i].raises THEN <<>> ELSE sources[i].rows

HasKey(rows, date, opponent) ==
    \E n \in 1..Len(rows) : rows[n].date = date /\ rows[n].opponent = opponent

\* the first row of the given key in rows
FirstOfKey(rows, date, opponent) ==
    rows[CHOOSE n \in 1..Len(rows) :
            /\ rows[n].date = date /\ rows[n].opponent = opponent
            /\ \A m \in 1..(n - 1) :
                   ~(rows[m].date = date /\ rows[m].opponent = opponent)]

\* the source of highest priority (lowest index) that returned the key
FirstSource(date, opponent) ==
    CHOOSE i \in 1..Len(sources) :
        /\ HasKey(Returned(i), date, opponent)
        /\ \A j \in 1..(i - 1) : ~HasKey(Returned(j), date, opponent)

\* the call is over: it returned a history or raised the error of the merge
Merged == pc \in {"done", "raised"}

\* C9: a (date, opponent) pair returned by two sources occurs exactly once in
\* the merged history, as the record of the source that comes first in the
\* source list, whichever source has more records.
C9_DedupKeepsFirstSource ==
    Merged =>
        \A d \in Dates, o \in Opponents :
            (\E i, j \in 1..Len(sources) :
                i < j /\ HasKey(Returned(i), d, o) /\ HasKey(Returned(j), d, o))
            =>
            /\ result.kind = "history"
            /\ LET hits == { n \in 1..Len(result.rows) :
                               /\ result.rows[n].date = d
                               /\ result.rows[n].opponent = o }
                   first == FirstSource(d, o)
               IN  /\ Cardinality(hits) = 1
                   /\ \A n \in hits :
                          /\ result.rows[n].source = SourceNames[first]
                          /\ result.rows[n].result
                                 = FirstOfKey(Returned(first), d, o).result

NoRows == [raises |-> FALSE, rows |-> <<>>]

\* C10: a fragment supplied twice merges to the same history, with the same
\* records in the same order, as when it is supplied once.  Taking away the
\* second copy, or adding one in a place that returned nothing, leaves the
\* same rows in the same order to sort_values, which therefore returns them
\* in the same order, and the outcome of the call, a history or the
\* TypeError of the sort, is an outcome of the other call.
C10_MergeIdempotent ==
    Merged =>
        \A i, j \in 1..Len(sources) :
            (/\ i < j
             /\ Returned(i) # <<>>
             /\ Returned(j) = Returned(i) \/ Returned(j) = <<>>) =>
                \A other \in {IF Returned(j) = <<>> THEN sources[i] ELSE NoRows} :
                \A frags \in {Collect([sources EXCEPT ![j] = other], 1)} :
                    /\ reset_index(drop_duplicates(Concat(frags)))
                         = reset_index(drop_duplicates(Concat(all_matches)))
                    /\ result \in Combine(frags)

\* C10 witness: two sources returned the same fragment, a third one another
\* row, and the merged history holds each row of the fragment once.
C10_Witness ==
    /\ pc = "done"
    /\ \E i, j, k \in 1..Len(sources) :
          /\ i < j /\ k # i /\ k # j
          /\ Returned(i) # <<>>
          /\ Returned(j) = Returned(i)
          /\ Returned(k) # <<>>
          /\ ~SameKey(Returned(k)[1], Returned(i)[1])
          /\ Len(result.rows) = Len(Returned(i)) + Len(Returned(k))

\* C11: after any merge of source fragments there is a merged history; it
\* is sorted by date, newest first, and holds no two records of the same
\* (date, opponent) pair; each of its records is a record of a fragment some
\* source returned, and each (date, opponent) pair of the returned
\* fragments occurs in it.
C11_MergeSortedUniqueComplete ==
    Merged =>
        /\ result.kind = "history"
        /\ SortedDescending(result.rows)
        /\ \A m, n \in 1..Len(result.rows) :
               m # n => ~(/\ result.rows[m].date = result.rows[n].date
                          /\ result.rows[m].opponent = result.rows[n].opponent)
        /\ \A n \in 1..Len(result.rows) :
               \E i \in 1..Len(sources) :
                   \E k \in 1..Len(Returned(i)) :
                       result.rows[n] = Tagged(i, Returned(i))[k]
        /\ \A i \in 1..Len(sources) :
               \A k \in 1..Len(Returned(i)) :
                   HasKey(result.rows, Returned(i)[k].date,
                          Returned(i)[k].opponent)

-----------------------------------------------------------------------------
(* Properties of extract_all_features, checked under SpecFeatures *)

NeutralForm ==
    [win_rate |-> 500000, avg_game_diff |-> 0, matches_played |-> 0,
     quality_adjusted_win_rate |-> 500000, recent_momentum |-> 0]

NeutralH2H ==
    [n_matches |-> 0, n_effective |-> 0, a_win_rate |-> 500000,
     avg_game_diff_a |-> 0, days_since_last |-> 9999]

\* C12: extract_all_features returns on empty input, with the neutral
\* defaults: for an empty history a rating of 1500 with elo_quality 0, a form
\* of win_rate 0.5, quality_adjusted_win_rate 0.5, recent_momentum 0 and
\* matches_played 0, no match in the last 14 and 30 days, a trend of 0 with
\* consistency 0.5; for an empty or absent head-to-head frame n_matches 0,
\* n_effective 0, a_win_rate 0.5, avg_game_diff_a 0 and days_since_last 9999.
C12_NeutralDefaults ==
    pc = "done" =>
        /\ hist_a = <<>> =>
              /\ features.elo_a = 1500000 /\ features.elo_quality_a = 0
              /\ features.form_a = NeutralForm
              /\ features.fatigue_a = [matches_last_14d |-> 0, matches_last_30d |-> 0]
              /\ features.trend_a = [trend |-> 0, consistency |-> 500000]
        /\ hist_b = <<>> =>
              /\ features.elo_b = 1500000 /\ features.elo_quality_b = 0
              /\ features.form_b = NeutralForm
              /\ features.fatigue_b = [matches_last_14d |-> 0, matches_last_30d |-> 0]
              /\ features.trend_b = [trend |-> 0, consistency |-> 500000]
        /\ NoneOrEmpty(h2h_df) => features.h2h = NeutralH2H

\* C12 witness: A has no history and the head-to-head frame is None, B has
\* three matches; the features were returned and B's are not the defaults.
C12_Witness ==
    /\ pc = "done"
    /\ hist_a = <<>> /\ h2h_df = None /\ Len(hist_b) = 3
    /\ features.form_a.matches_played = 0
    /\ features.form_b.matches_played = 3
    /\ features.elo_b # 1500000
    /\ features.h2h.days_since_last = 9999

-----------------------------------------------------------------------------
(* Properties of generate_explanation, checked under SpecExplain *)

DriverOrder ==
    <<"Ranking gap", "Recent form", "Head-to-head", "Performance rating">>

\* C15: generate_explanation returns 3 or 4 drivers, in the order Ranking
\* gap, Recent form, Head-to-head, Performance rating; the fourth is there
\* exactly when |elo_diff| > 150; no driver has an empty feature, impact or
\* note.
C15_DriversShape ==
    pc = "done" =>
        LET drivers == result.explain.drivers
        IN  /\ Len(drivers) \in {3, 4}
            /\ \A i \in 1..Len(drivers) :
                  /\ drivers[i].feature = DriverOrder[i]
                  /\ drivers[i].impact # ""
                  /\ drivers[i].note.template # ""
            /\ Len(drivers) = 4 <=> (features.elo_diff > 150 \/ features.elo_diff < -150)

\* C15 witness: an Elo difference of -151 gives the fourth driver, with a
\* tier gap of 0 and no head-to-head history.
C15_Witness ==
    /\ pc = "done"
    /\ features.elo_diff = -151
    /\ result.tier_gap = 0
    /\ features.h2h.n_matches = 0
    /\ Len(result.explain.drivers) = 4
    /\ result.explain.drivers[4].impact = "- moderate"
    /\ result.explain.drivers[1].impact \in {"+ mild", "- mild"}

-----------------------------------------------------------------------------
(* Properties of predict_match and the generator, checked under            *)
(* SpecConcurrent and SpecSequential                                       *)

\* the intervals a call returns when no other call runs
Ci95Alone(args) ==
    { run.result.ci95 : run \in predict_match_seeded(np_random_at_import, args) }

\* C13: two predict_match calls with different seeds running at the same
\* time each return the ci95 they return when run alone, under every
\* interleaving.
C13_ConcurrentCallsIndependent ==
    \A t \in Threads :
        (calls[t].pc = "done" /\ calls[1].args.seed # calls[2].args.seed) =>
            calls[t].result.ci95 \in Ci95Alone(calls[t].args)

\* C14: two calls of predict_match made one after the other with the same
\* features, ranks and seed return the same winner, proba, ci95 and drivers,
\* whatever calls were made between them.
C14_SequentialDeterminism ==
    \A i, j \in 1..Len(calls) :
        calls[i].args = calls[j].args => calls[i].result = calls[j].result

\* C14 witness: the first and the third call have the same arguments, the
\* second one another seed and other intervals.
C14_Witness ==
    /\ Len(calls) = 3
    /\ calls[1].args = calls[3].args
    /\ calls[2].args.seed # calls[1].args.seed
    /\ calls[2].result.ci95 # calls[1].result.ci95
    /\ calls[3].result = calls[1].result
    /\ Len(calls[3].result.explain.drivers) = 4

-----------------------------------------------------------------------------
(* Properties of calculate_evidence_weight and h2h_adjustment, checked     *)
(* under SpecEvidence                                                      *)

\* the features with matches_played of A and B replaced
WithPlayed(n_a, n_b) ==
    [features EXCEPT !.form_a.matches_played = n_a,
                     !.form_b.matches_played = n_b]

\* C17: calculate_evidence_weight is clip(sqrt((n_a + n_b) / 2) / 10, 0.2, 1):
\* it lies in [0.2, 1], does not decrease when either matches_played grows by
\* one, and is 0.2 when both are 0.
C17_EvidenceWeight ==
    (pc = "done" /\ result.kind = "weight") =>
        LET n_a == features.form_a.matches_played
            n_b == features.form_b.matches_played
            half_sum == (n_a + n_b) * 500000
            w == result.w
        IN  /\ w >= 200000 /\ w <= U
            /\ n_a + n_b <= 8 => w = 200000
            /\ n_a + n_b >= 200 => w = U
            /\ (n_a + n_b > 8 /\ n_a + n_b < 200) =>
                  /\ MulU(10 * w - 20, 10 * w - 20) <= half_sum
                  /\ MulU(10 * w + 20, 10 * w + 20) >= half_sum
            /\ calculate_evidence_weight(WithPlayed(n_a + 1, n_b)) >= w
            /\ calculate_evidence_weight(WithPlayed(n_a, n_b + 1)) >= w
            /\ (n_a = 0 /\ n_b = 0) => w = 200000

\* C17 witness: 12 and 20 matches give sqrt(16) / 10 = 0.4, between the
\* floor and the ceiling.
C17_Witness ==
    /\ pc = "done" /\ result.kind = "weight"
    /\ features.form_a.matches_played = 12
    /\ features.form_b.matches_played = 20
    /\ result.w >= 399998 /\ result.w <= 400002

\* the strength the claim gives for an effective sample size
ClaimedStrength(n_effective) ==
    IF n_effective < 2000000 THEN 50000
    ELSE IF n_effective < 3000000 THEN 100000
    ELSE IF n_effective < 5000000 THEN 200000
    ELSE 300000

\* C18: h2h_adjustment is 0 when n_matches = 0; otherwise it is
\* strength * (a_win_rate - 0.5) * 2 with the strength 0.05, 0.10, 0.20 or
\* 0.30 of n_effective, positive exactly when a_win_rate > 0.5 and at most
\* 0.30 in magnitude.
C18_H2HAdjustment ==
    (pc = "done" /\ result.kind = "h2h_adjustment") =>
        LET h2h == features.h2h
            delta == result.delta_logit
        IN  /\ h2h.n_matches = 0 => delta = 0
            /\ h2h.n_matches # 0 =>
                  /\ delta = MulU(ClaimedStrength(h2h.n_effective),
                                  (h2h.a_win_rate - 500000) * 2)
                  /\ delta > 0 <=> h2h.a_win_rate > 500000
                  /\ delta <= 300000 /\ delta >= -300000

\* C18 witness: five matches with an effective size just under 5 and a win
\* rate of 0.75 give 0.20 * 0.5 = 0.1.
C18_Witness ==
    /\ pc = "done" /\ result.kind = "h2h_adjustment"
    /\ features.h2h.n_matches = 5
    /\ features.h2h.n_effective = 4999999
    /\ features.h2h.a_win_rate = 750000
    /\ result.delta_logit = 100000

-----------------------------------------------------------------------------
(* Properties of the head-to-head summary, checked under SpecH2H *)

\* the rows of h2h_df, none for None
H2HMatches == IF h2h_df.frame THEN h2h_df.rows ELSE <<>>

\* C19: avg_game_diff_a is the average over the head-to-head matches of A's
\* games minus B's games: negative when B won every match, positive when A
\* won every match.
C19_SignedGameDiff ==
    (pc = "done" /\ H2HMatches # <<>>) =>
        LET rows == H2HMatches
            diffs == [i \in 1..Len(rows) |-> rows[i].games_won - rows[i].games_lost]
        IN  /\ result.h2h.avg_game_diff_a = RoundDiv(Sum(diffs) * U, Len(rows))
            /\ (\A i \in 1..Len(rows) : rows[i].winner = "B") =>
                   result.h2h.avg_game_diff_a < 0
            /\ (\A i \in 1..Len(rows) : rows[i].winner = "A") =>
                   result.h2h.avg_game_diff_a > 0

\* the sum of the weights 0.5^(days / 180) of the rows of the last 730 days
RECURSIVE WeightSum180(_)
WeightSum180(rows) ==
    IF rows = <<>> THEN 0
    ELSE (IF Head(rows).age <= 1460
          THEN decay(Head(rows).age \div 2, HALF_LIFE_DAYS) ELSE 0)
         + WeightSum180(Tail(rows))

\* C20 as stated: n_effective is the sum of 0.5^(days_ago / 180) over the
\* head-to-head matches of the last 730 days, so that one match 180 days old
\* gives 0.5.
C20_Original ==
    pc = "done" =>
        /\ Abs(result.h2h.n_effective - WeightSum180(H2HMatches)) <= 5
        /\ (Len(H2HMatches) = 1 /\ H2HMatches[1].age = 360) =>
               Abs(result.h2h.n_effective - 500000) <= 5

\* 0.5^(days / 365) for the ages of the enumerated rows
HalfLife365 ==
    (10 :> 981189) @@ (180 :> 710472) @@ (365 :> 500000) @@ (730 :> 250000)
    @@ (800 :> 218881)

RECURSIVE WeightSum365(_)
WeightSum365(rows) ==
    IF rows = <<>> THEN 0
    ELSE (IF Head(rows).age <= 1460 THEN HalfLife365[Head(rows).age \div 2] ELSE 0)
         + WeightSum365(Tail(rows))

\* C20 amended: n_effective is the sum of 0.5^(days_ago / 365) over the
\* head-to-head matches dated within the 730 days before the reference date:
\* a half-life of 365 days, not the 180 days of the rating.  One match 365
\* days old gives 0.5, one match 180 days old gives 0.71, and matches older
\* than 730 days contribute nothing.
C20_H2HEffectiveSize ==
    pc = "done" =>
        /\ Abs(result.h2h.n_effective - WeightSum365(H2HMatches)) <= 5
        /\ (Len(H2HMatches) = 1 /\ H2HMatches[1].age = 730) =>
               Abs(result.h2h.n_effective - 500000) <= 2
        /\ (Len(H2HMatches) = 1 /\ H2HMatches[1].age = 360) =>
               Abs(result.h2h.n_effective - 710472) <= 2
        /\ (\A i \in 1..Len(H2HMatches) : H2HMatches[i].age > 1460) =>
               result.h2h.n_effective = 0

\* C20 witness: one head-to-head match 180 days old and one 800 days old
\* give an effective size of 0.71.
C20_Witness ==
    /\ pc = "done"
    /\ Len(H2HMatches) = 2
    /\ H2HMatches[1].age = 360 /\ H2HMatches[2].age = 1600
    /\ result.h2h.n_matches = 2
    /\ Abs(result.h2h.n_effective - 710472) <= 2

(* Claims about the performance trend *)

\* the win rates of the non-empty 2-week buckets of the 12 weeks before the
\* reference date, oldest first
BucketWinRates(hist) == period_win_rates(hist, 12, 0)

\* the matches of the 12 weeks before the reference date
RecentMatches(hist) == SelectSeq(hist, LAMBDA m : m.age <= Days(84))

FittedTrend(hist) ==
    [trend |-> polyfit_slope(BucketWinRates(hist)),
     consistency |-> Max(0, Min(U, U - var(BucketWinRates(hist))))]

\* C21 as stated: calculate_performance_trend reports the fitted slope and
\* the consistency 1 - variance clamped to [0, 1] whenever at least 2 of the
\* six 2-week buckets are non-empty, and trend 0 with consistency 0.5 only
\* when fewer than 2 are.
C21_Original ==
    pc = "done" =>
        features.trend_a =
            IF Len(BucketWinRates(hist_a)) >= 2
            THEN FittedTrend(hist_a)
            ELSE [trend |-> 0, consistency |-> 500000]

\* C21 amended: calculate_performance_trend reports the fitted slope and
\* the clamped consistency whenever the history has at least 3 matches in the
\* 12 weeks before the reference date and at least 2 of the six buckets are
\* non-empty; in every other case it reports trend 0 and consistency 0.5.
C21_TrendNeedsThreeMatches ==
    pc = "done" =>
        /\ (Len(RecentMatches(hist_a)) >= 3 /\ Len(BucketWinRates(hist_a)) >= 2)
              => features.trend_a = FittedTrend(hist_a)
        /\ (Len(RecentMatches(hist_a)) < 3 \/ Len(BucketWinRates(hist_a)) < 2)
              => features.trend_a = [trend |-> 0, consistency |-> 500000]

\* C21 witness: three matches of the last 12 weeks in two buckets, and a
\* slope that is not 0 was reported.
C21_Witness ==
    /\ pc = "done"
    /\ Len(RecentMatches(hist_a)) = 3
    /\ Len(BucketWinRates(hist_a)) = 2
    /\ features.trend_a.trend # 0
    /\ features.trend_a.consistency > 500000

(* Claims about the ranking snapshot *)

\* the names of the players of both ranking lists, lower-cased
ListedNames ==
    { lower[p.Name] :
        p \in { q \in { get_all_ranked_players(rankings.male)[i] :
                          i \in DOMAIN get_all_ranked_players(rankings.male) }
                      \cup
                      { get_all_ranked_players(rankings.female)[i] :
                          i \in DOMAIN get_all_ranked_players(rankings.female) } :
                  "Name" \in DOMAIN q } }

\* C22: for a player who is absent from both ranking lists,
\* get_ranking_snapshot_psa returns, without raising, a RankingSnapshot with
\* rank 999 and points 0.
C22_UnknownPlayerGets999 ==
    (pc = "done" /\ lower[player_name] \notin ListedNames) =>
        result = [kind |-> "RankingSnapshot", rank |-> 999, points |-> 0]

(* Claims about get_match_history *)

\* C24: get_match_history returns a DataFrame (possibly empty) on every
\* path, also when the PSA website source returns no matches or raises, so
\* get_h2h, which calls .empty on the result, never fails on it.
C24_HistoryIsAlwaysAFrame ==
    /\ pc = "history" => result.value.frame
    /\ pc = "h2h" => result.value # Raised("AttributeError")

(* Claims about the bundle /api/predict hands to the model *)

\* C23: in the /api/predict path, when the merged history of either
\* competitor is empty or its fetch failed, the bundle handed to
\* model.predict_match has every feature at its neutral default (rating 1500
\* for both, form win_rate 0.5 for both, matches_played 0, the neutral
\* head-to-head summary), so the evidence favours neither competitor and the
\* evidence weight is the 0.2 floor.
C23_EmptyHistoryGivesNeutralBundle ==
    (pc = "done" /\ (NoneOrEmpty(hist_a) \/ NoneOrEmpty(hist_b))) =>
        /\ features.elo_a = 1500 /\ features.elo_b = 1500
        /\ features.form_a.win_rate = 500000
        /\ features.form_b.win_rate = 500000
        /\ features.form_a.matches_played = 0
        /\ features.form_b.matches_played = 0
        /\ features.h2h = NeutralH2H
        /\ evidence_probability(features) = 500000
        /\ calculate_evidence_weight(features) = 200000

(* Claims about the reported winner *)

\* C26: whenever the ranks differ, the reported winner is the competitor
\* with the numerically lower rank, whatever the Elo difference, form,
\* momentum, trend and head-to-head record are.
C26_WinnerIsBetterRanked ==
    (pc = "done" /\ rank_a # rank_b) =>
        result.winner = (IF rank_a < rank_b THEN "A" ELSE "B")

\* C26 witness: A is ranked worse than B, leads by 500 Elo points and the
\* blended probability was above one half for A; B is reported the winner.
C26_Witness ==
    /\ pc = "done" /\ rank_a > rank_b
    /\ features.elo_diff = 500
    /\ result.p_blend > 500000
    /\ result.winner = "B"

(* Claims about the override of the guardrail *)

\* C27: every call of check_override_conditions made by predict_match
\* returns False (it is called only with fewer than 3 head-to-head matches,
\* so only the Elo condition can hold and 2 are required), and the tier cap
\* is applied on every prediction with a tier gap of 3 or more and fewer
\* than 3 head-to-head matches.
C27_OverrideNeverGranted ==
    pc = "done" =>
        /\ result.override_called =>
              /\ features.h2h.n_matches < 3
              /\ ~result.override
              /\ conditions_met(features, rank_a, rank_b) <= 1
        /\ (TierGap >= 3 /\ features.h2h.n_matches < 3) =>
              /\ result.override_called
              /\ result.capped

\* C27 witness: the guardrail was reached with the underdog leading by 180
\* Elo points or more, one condition was met, and the cap was applied.
C27_Witness ==
    /\ pc = "done"
    /\ result.override_called
    /\ UnderdogEloLead
    /\ conditions_met(features, rank_a, rank_b) = 1
    /\ result.capped
    /\ UnderdogP <= CapTable[TierGap]

(* Claims about exchanging the two competitors *)

\* the feature bundle of the same match with the competitors exchanged
Exchanged(f) ==
    [elo_diff |-> 0 - f.elo_diff, form_a |-> f.form_b, form_b |-> f.form_a,
     h2h |-> [f.h2h EXCEPT !.a_win_rate = U - @]]
    @@ (IF "trend_a" \in DOMAIN f
        THEN [trend_a |-> f.trend_b, trend_b |-> f.trend_a]
        ELSE [none \in {} |-> 0])

\* predict_match called with the competitors exchanged: every return it
\* can make
ExchangedResult == predict_match(Exchanged(features), rank_b, rank_a)

C29_FormWindowBoundsEvidenceWeight ==
    pc = "done" =>
        /\ features.form_a.matches_played = Min(20, Len(hist_a))
        /\ features.form_b.matches_played = Min(20, Len(hist_b))
        /\ calculate_evidence_weight(features) <= Sqrt(20 * U) \div 10
        /\ calculate_evidence_weight(features) < 450000
        /\ U - calculate_evidence_weight(features) > 500000

\* C29 witness: both histories are longer than 20 matches, both forms count
\* 20 and the evidence weight is sqrt(20)/10.
C29_Witness ==
    /\ pc = "done"
    /\ Len(hist_a) > 20 /\ Len(hist_b) > 20
    /\ features.form_a.matches_played = 20
    /\ features.form_b.matches_played = 20
    /\ calculate_evidence_weight(features) = 447213

(* Claims about the quality-adjusted win rate *)

\* C30: the quality-adjusted win rate returned by calculate_enhanced_form
\* lies in [0, 1] for every history.
C30_QualityWinRateIsARate ==
    pc = "done" =>
        /\ features.form_a.quality_adjusted_win_rate >= 0
        /\ features.form_a.quality_adjusted_win_rate <= U
        /\ features.form_b.quality_adjusted_win_rate >= 0
        /\ features.form_b.quality_adjusted_win_rate <= U

-----------------------------------------------------------------------------
(* Login rate limiting and lockout (auth/middleware.py).                   *)
(*                                                                         *)
(* time.time() is the variable now, in whole seconds. login_attempts and   *)
(* lockouts are the module-level dictionaries _login_attempts and          *)
(* _lockouts. logins keeps, for every client IP, the number of login       *)
(* requests that passed check_rate_limit and await call_next, the status   *)
(* of the IP's latest response, the number of requests dispatched so far,  *)
(* and the times of the failures recorded since the IP's attempts were     *)
(* last cleared (a history the code itself does not keep).                 *)

LOGIN_RPM == 20

LOCKOUT_AFTER == 6

LOCKOUT_SECONDS == 900

MaxLogins == 7

check_rate_limit(ip, attempts_of, lockout_of, t) ==
    IF ip \in DOMAIN lockout_of /\ t < lockout_of[ip]
    THEN [allowed |-> FALSE,
          error |-> "Too many failed attempts.",
          login_attempts |-> attempts_of,
          lockouts |-> lockout_of]
    ELSE LET expired == ip \in DOMAIN lockout_of
             unlocked == [i \in DOMAIN lockout_of \ {ip} |-> lockout_of[i]]
             attempts == SelectSeq(IF expired THEN <<>> ELSE attempts_of[ip],
                                   LAMBDA at : t - at < 60)
             pruned == [attempts_of EXCEPT ![ip] = attempts]
         IN  IF Len(attempts) >= LOGIN_RPM
             THEN [allowed |-> FALSE,
                   error |-> "Rate limit exceeded.",
                   login_attempts |-> pruned,
                   lockouts |-> unlocked]
             ELSE [allowed |-> TRUE,
                   error |-> "",
                   login_attempts |-> pruned,
                   lockouts |-> unlocked]

record_login_attempt(ip, success, attempts_of, lockout_of, t) ==
    IF ~success
    THEN LET attempts == SelectSeq(Append(attempts_of[ip], t),
                                   LAMBDA at : t - at < 3600)
             recent_failures == SelectSeq(attempts, LAMBDA at : t - at < 300)
         IN  [login_attempts |-> [attempts_of EXCEPT ![ip] = attempts],
              lockouts |->
                  IF Len(recent_failures) >= LOCKOUT_AFTER
                  THEN [i \in DOMAIN lockout_of \cup {ip} |->
                            IF i = ip THEN t + LOCKOUT_SECONDS
                            ELSE lockout_of[i]]
                  ELSE lockout_of]
    ELSE [login_attempts |-> [attempts_of EXCEPT ![ip] = <<>>],
          lockouts |-> [i \in DOMAIN lockout_of \ {ip} |-> lockout_of[i]]]

RECURSIVE Dispatched(_)
\* the number of login requests the middleware has dispatched for the
\* addresses ips
Dispatched(ips) ==
    IF ips = {} THEN 0
    ELSE LET ip == CHOOSE i \in ips : TRUE
         IN  logins[ip].dispatched + Dispatched(ips \ {ip})

InitLogin ==
    /\ pc = "serving"
    /\ NoRanks
    /\ rank = 0
    /\ NoMerge
    /\ features = NoFeatures
    /\ result = NoResult
    /\ NoFrames
    /\ NoCalls
    /\ rankings = [male |-> [ok |-> FALSE], female |-> [ok |-> FALSE]]
    /\ player_name = ""
    /\ login_attempts = [ip \in IPs |-> <<>>]
    /\ lockouts = [ip \in {} |-> 0]
    /\ now = 0
    /\ logins = [ip \in IPs |-> [dispatched |-> 0, in_flight |-> 0,
                                 status_code |-> 0, failures |-> <<>>]]

\* dispatch of POST /auth/login up to "await call_next" (lines 103-124): the
\* login path is public, so only the rate limit can reject the request
Dispatch(client_ip) ==
    /\ Dispatched(IPs) < MaxLogins
    /\ \E check \in {check_rate_limit(client_ip, login_attempts, lockouts,
                                      now)} :
          /\ login_attempts' = check.login_attempts
          /\ lockouts' = check.lockouts
          /\ logins' = [logins EXCEPT ![client_ip] =
                 [dispatched |-> @.dispatched + 1,
                  in_flight |-> IF check.allowed THEN @.in_flight + 1
                                ELSE @.in_flight,
                  status_code |-> IF check.allowed THEN @.status_code
                                  ELSE 429,
                  failures |-> IF client_ip \in DOMAIN lockouts
                                  /\ client_ip \notin DOMAIN check.lockouts
                               THEN <<>> ELSE @.failures]]
    /\ UNCHANGED <<now, rankings, player_name, pc, rank_a, rank_b, features,
                   result, rank, sources, all_matches, frameVars, callVars>>

\* the login route answered 200 (success) or 401, and dispatch records the
\* attempt (lines 124-131)
Respond(client_ip, status_code) ==
    /\ logins[client_ip].in_flight > 0
    /\ \E record \in {record_login_attempt(client_ip, status_code = 200,
                                           login_attempts, lockouts, now)} :
          /\ login_attempts' = record.login_attempts
          /\ lockouts' = record.lockouts
    /\ logins' = [logins EXCEPT ![client_ip] =
           [dispatched |-> @.dispatched,
            in_flight |-> @.in_flight - 1,
            status_code |-> status_code,
            failures |-> IF status_code = 200 THEN <<>>
                         ELSE Append(@.failures, now)]]
    /\ UNCHANGED <<now, rankings, player_name, pc, rank_a, rank_b, features,
                   result, rank, sources, all_matches, frameVars, callVars>>

\* time passes between two calls of time.time() (lines 50 and 77): the
\* clock is read half a minute and a minute after the start, and when a
\* lockout set at the first or the second reading runs out
Tick ==
    /\ \E t \in {30, 60, 900, 930} :
          /\ t > now
          /\ now' = t
    /\ UNCHANGED <<login_attempts, lockouts, logins, rankings, player_name,
                   pc, rank_a, rank_b, features, result, rank, sources,
                   all_matches, frameVars, callVars>>

SpecLogin ==
    InitLogin /\ [][\/ \E ip \in IPs : Dispatch(ip)
                    \/ \E ip \in IPs : Respond(ip, 200)
                    \/ \E ip \in IPs : Respond(ip, 401)
                    \/ Tick]_vars

-----------------------------------------------------------------------------
\* C25: once LOCKOUT_AFTER failed login attempts of one IP were recorded
\* within 5 minutes (and neither a successful login nor the expiry of a
\* lockout has cleared them since), the IP is locked out: _lockouts holds
\* it, until LOCKOUT_SECONDS after the last of these failures.
C25_SixFailuresLockOut ==
    \A ip \in IPs :
        LET failures == logins[ip].failures
            n == Len(failures)
        IN  (n >= LOCKOUT_AFTER
             /\ failures[n] - failures[n - LOCKOUT_AFTER + 1] < 300)
            => /\ ip \in DOMAIN lockouts
               /\ lockouts[ip] = failures[n] + LOCKOUT_SECONDS

=============================================================================
